---------------------------- MODULE Spec2Model ----------------------------
(***************************************************************************)
(* A model of the Perplexity research server: the research journal store   *)
(* (ResearchStore), the multi-model synthesis engine (SynthesisEngine) and  *)
(* the query classifier of the API client (PerplexityClient).              *)
(*                                                                         *)
(* Text is modelled as text: a JavaScript string is a TLA+ string, and the  *)
(* string methods and regular expressions the code uses are operators that *)
(* work character by character.                                            *)
(***************************************************************************)
EXTENDS Integers, Sequences, FiniteSets, TLC

VARIABLES
    files,      \* research directory: thread filename -> file content
    raw,        \* raw/ directory: backup filename -> what was backed up
    dir,        \* which directories exist, the day each thread file was
                \* last written, and the other entries of the research directory
    now,        \* the clock, in seconds (generateTimestamp has second resolution)
    today,      \* the calendar day new Date() reports
    saves,      \* number of saveResearch calls made so far
    journal,    \* history: thread filename -> the entries written to it, in order
    lastSave,   \* history: what the last saveResearch call did
    synth,      \* the synthesize call in progress
    arg,        \* the argument of the function under study
    ret         \* its result

storeVars == <<files, raw, dir, now, today, saves, journal, lastSave>>
vars == <<files, raw, dir, now, today, saves, journal, lastSave, synth, arg, ret>>

-----------------------------------------------------------------------------
(* Bounds of the model *)

\* longest free part of a generated query, in characters
MaxSuffix == 3
\* saveResearch calls in one run of the store
MaxSaves == 2

-----------------------------------------------------------------------------
(* JavaScript string primitives *)

Min(a, b) == IF a < b THEN a ELSE b
Max(a, b) == IF a > b THEN a ELSE b

CharAt(s, i) == SubSeq(s, i, i)

CharsOf(s) == {CharAt(s, i) : i \in 1..Len(s)}

LowerLetters == "abcdefghijklmnopqrstuvwxyz"
UpperLetters == "ABCDEFGHIJKLMNOPQRSTUVWXYZ"

DigitSet == CharsOf("0123456789")
LowerAlnumSet == CharsOf(LowerLetters) \cup DigitSet
SpaceSet == CharsOf(" \n\t\r")

IsLowerAlnum(c) == c \in LowerAlnumSet
IsDigit(c) == c \in DigitSet
IsSpace(c) == c \in SpaceSet

\* String.prototype.substring(a, b) with 0-based a <= b
Substring(s, a, b) == SubSeq(s, Min(a, Len(s)) + 1, Min(b, Len(s)))

\* s.startsWith(p, at) with a 1-based position
MatchesAt(s, p, at) ==
    /\ at + Len(p) - 1 <= Len(s)
    /\ SubSeq(s, at, at + Len(p) - 1) = p

StartsWith(s, p) == MatchesAt(s, p, 1)

\* the least element of a set of numbers, or the default for the empty set
MinOr(set, default) ==
    IF set = {} THEN default ELSE CHOOSE i \in set : \A j \in set : i <= j

\* String.prototype.indexOf, 1-based; 0 when p does not occur
IndexOf(s, p) == MinOr({i \in 1..(Len(s) + 1) : MatchesAt(s, p, i)}, 0)

Includes(s, p) == \E i \in 1..(Len(s) + 1) : MatchesAt(s, p, i)

LowerOf ==
    [c \in CharsOf(UpperLetters) |-> CharAt(LowerLetters, IndexOf(UpperLetters, c))]

LowerChar(c) == IF c \in DOMAIN LowerOf THEN LowerOf[c] ELSE c

RECURSIVE ToLowerCase(_)
\* String.prototype.toLowerCase on ASCII text, by halves
ToLowerCase(s) ==
    IF Len(s) <= 1 THEN LowerChar(s)
    ELSE ToLowerCase(SubSeq(s, 1, Len(s) \div 2))
         \o ToLowerCase(SubSeq(s, Len(s) \div 2 + 1, Len(s)))

RECURSIVE LastNonSpace(_, _)
RECURSIVE FirstNonSpace(_, _)
\* the last position at or before i that holds no whitespace, 0 when none
LastNonSpace(s, i) ==
    IF i = 0 \/ ~IsSpace(CharAt(s, i)) THEN i ELSE LastNonSpace(s, i - 1)

\* the first position at or after i that holds no whitespace
FirstNonSpace(s, i) ==
    IF i > Len(s) \/ ~IsSpace(CharAt(s, i)) THEN i ELSE FirstNonSpace(s, i + 1)

\* String.prototype.trimEnd
TrimEnd(s) == SubSeq(s, 1, LastNonSpace(s, Len(s)))

TrimStart(s) == SubSeq(s, FirstNonSpace(s, 1), Len(s))

Trim(s) == TrimStart(TrimEnd(s))

-----------------------------------------------------------------------------
(* ResearchStore: filename derivation *)

\* .replace(/[^a-z0-9]+/g, '-'): every maximal run of other characters
\* becomes one hyphen
ReplaceNonAlnumRuns(s) ==
    LET F[i \in 0..Len(s)] ==
            IF i = 0 THEN ""
            ELSE F[i - 1] \o
                 (IF IsLowerAlnum(CharAt(s, i)) THEN CharAt(s, i)
                  ELSE IF i = 1 \/ IsLowerAlnum(CharAt(s, i - 1)) THEN "-"
                  ELSE "")
    IN  F[Len(s)]

\* .replace(/^-|-$/g, ''): one hyphen off the start, one off the end
TrimHyphens(s) ==
    LET a == IF StartsWith(s, "-") THEN SubSeq(s, 2, Len(s)) ELSE s
    IN  IF Len(a) > 0 /\ CharAt(a, Len(a)) = "-"
        THEN SubSeq(a, 1, Len(a) - 1) ELSE a

SlugLimit == 50

\* the sanitizedTopic of generateFilename
SanitizeTopic(topic, limit) ==
    Substring(TrimHyphens(ReplaceNonAlnumRuns(ToLowerCase(topic))), 0, limit)

\* new Date().toISOString().split('T')[0]
IsoDate(day) == "2024-01-0" \o ToString(day)

\* a variant that names the file by the date alone
filenameOfDay(topic, day) == "thread-" \o IsoDate(day) \o ".md"

generateFilename(topic, day) ==
    SanitizeTopic(topic, SlugLimit) \o "-" \o IsoDate(day) \o ".md"


-----------------------------------------------------------------------------
(* ResearchStore: formatting helpers *)

\* function update that may add a key (fs.writeFileSync creates or replaces)
Put(f, k, v) == [x \in (DOMAIN f) \cup {k} |-> IF x = k THEN v ELSE f[x]]

NoFiles == [x \in {} |-> ""]

RECURSIVE stripThinkingRegex(_)
\* content.replace(/<think>[\s\S]*?<\/think>/g, ''): leftmost match, shortest
\* body, then on from the end of the match
stripThinkingRegex(s) ==
    LET i == IndexOf(s, "<think>")
        rest == SubSeq(s, i + 7, Len(s))
        j == IndexOf(rest, "</think>")
    IN  IF i = 0 \/ j = 0 THEN s
        ELSE SubSeq(s, 1, i - 1)
             \o stripThinkingRegex(SubSeq(rest, j + 8, Len(rest)))

stripThinkingBlocks(content) == Trim(stripThinkingRegex(content))

Pad2(n) == IF n < 10 THEN "0" \o ToString(n) ELSE ToString(n)
Pad3(n) == IF n < 10 THEN "00" \o ToString(n)
           ELSE IF n < 100 THEN "0" \o ToString(n) ELSE ToString(n)
Pad4(n) == IF n < 1000 THEN "0" \o Pad3(n) ELSE ToString(n)

\* Number.prototype.toLocaleString() for a token count (en-US grouping)
ToLocaleString(n) ==
    IF n < 1000 THEN ToString(n)
    ELSE ToString(n \div 1000) \o "," \o Pad3(n % 1000)

\* MODEL_PRICING, dollars per million tokens
ModelPricing(model) ==
    CASE model = "sonar" -> [input |-> 1, output |-> 1]
      [] model = "sonar-pro" -> [input |-> 3, output |-> 15]
      [] model = "sonar-reasoning" -> [input |-> 1, output |-> 5]
      [] model = "sonar-reasoning-pro" -> [input |-> 2, output |-> 8]
      [] model = "sonar-deep-research" -> [input |-> 2, output |-> 8]
      [] OTHER -> [input |-> 1, output |-> 1]

\* totalCost.toFixed(4), computed in millionths of a dollar
calculateCost(model, promptTokens, completionTokens) ==
    LET pricing == ModelPricing(model)
        micro == promptTokens * pricing.input + completionTokens * pricing.output
        tenThousandths == (micro + 50) \div 100
    IN  "$" \o ToString(tenThousandths \div 10000) \o "."
        \o Pad4(tenThousandths % 10000)

\* `${utc} (${tzName} ${localTime})`, the process running in UTC
formatDualTimestamp(t, day) ==
    IsoDate(day) \o "T00:00:" \o Pad2(t) \o ".000Z (UTC 00:00:" \o Pad2(t) \o ")"

\* new URL(url).hostname.replace(/^www\./, ''), the url itself when it has
\* no scheme
extractDomain(url) ==
    LET i == IndexOf(url, "://")
        rest == SubSeq(url, i + 3, Len(url))
        j == IndexOf(rest, "/")
        host == IF j = 0 THEN rest ELSE SubSeq(rest, 1, j - 1)
    IN  IF i = 0 THEN url
        ELSE IF StartsWith(host, "www.") THEN SubSeq(host, 5, Len(host))
        ELSE host

\* parts.join(sep)
Join(parts, sep) ==
    LET F[i \in 0..Len(parts)] ==
            IF i = 0 THEN ""
            ELSE IF i = 1 THEN parts[1]
            ELSE F[i - 1] \o sep \o parts[i]
    IN  F[Len(parts)]

formatCitations(citations) ==
    IF Len(citations) = 0 THEN "*No citations provided*"
    ELSE Join([i \in 1..Len(citations) |->
                 "[" \o ToString(i) \o "] " \o extractDomain(citations[i])
                 \o "\n    " \o citations[i]], "\n\n")

generateSynthesisSection(queryCount, day) ==
    "## Synthesis (Updated: " \o IsoDate(day) \o ")\n\n*"
    \o ToString(queryCount) \o " "
    \o (IF queryCount = 1 THEN "query" ELSE "queries")
    \o " in this thread*\n\n### Key Conclusions\n- *(Update after reviewing findings)*\n\n"
    \o "### Open Questions\n- *(What remains unresolved)*\n\n"
    \o "### Confidence Assessment\n- High confidence: *(topics)*\n"
    \o "- Needs verification: *(topics)*\n"

\* generateTimestamp: YYYYMMDD_HHMMSS
generateTimestamp(t, day) == "2024010" \o ToString(day) \o "_0000" \o Pad2(t)

RawSlugLimit == 30

rawFilenameFor(topic, t, day) ==
    generateTimestamp(t, day) \o "_" \o SanitizeTopic(topic, RawSlugLimit)
    \o ".json"

RECURSIVE DigitsEnd(_, _)
\* the position after the digits that start at p
DigitsEnd(s, p) ==
    IF p <= Len(s) /\ IsDigit(CharAt(s, p)) THEN DigitsEnd(s, p + 1) ELSE p

\* /^## Query \d+:/m matches at position i; with the m flag a line starts
\* at the start of the text or after a line terminator
QueryHeaderAt(s, i) ==
    LET k == DigitsEnd(s, i + 9)
    IN  /\ i = 1 \/ CharAt(s, i - 1) \in {"\n", "\r"}
        /\ MatchesAt(s, "## Query ", i)
        /\ k > i + 9
        /\ k <= Len(s)
        /\ CharAt(s, k) = ":"

\* countQueriesInThread on the content of an existing file
countQueries(content) ==
    Cardinality({i \in 1..Len(content) : QueryHeaderAt(content, i)})

-----------------------------------------------------------------------------
(* ResearchStore.saveResearch *)

\* A call is [query, response, model, systemPrompt, modelRationale,
\* approvedPlan]; a response is [id, hasUsage, content, citations, related,
\* usage]. env is what the call finds: the clock and whether the two
\* writeFileSync calls succeed. A run is the state of one saveResearch call
\* as it proceeds.

StartRun(fs, rawDir) ==
    [files |-> fs, raw |-> rawDir, log |-> <<>>, threw |-> FALSE,
     rawFilename |-> "", filePath |-> "", queryNum |-> 0, entry |-> ""]

Throw(run, op) == [run EXCEPT !.log = Append(@, op), !.threw = TRUE]

\* Step 1: saveRawResponse
saveRawResponse(run, call, env) ==
    IF run.threw THEN run
    ELSE LET filename == rawFilenameFor(call.query, env.now, env.today)
         IN  IF ~env.rawWriteOk THEN Throw(run, "write raw")
             ELSE [run EXCEPT
                     !.raw = Put(@, filename,
                                 [model |-> call.model, topic |-> call.query,
                                  response |-> call.response.id]),
                     !.log = Append(@, "write raw"),
                     !.rawFilename = filename]

queryTitleOf(query) ==
    IF Len(query) > 60 THEN Substring(query, 0, 60) \o "..." ELSE query

formatEntry(call, queryNum, rawFilename, timestamp) ==
    LET r == call.response
        content == stripThinkingBlocks(r.content)
        cost == calculateCost(call.model, r.usage.prompt_tokens,
                              r.usage.completion_tokens)
    IN  "## Query " \o ToString(queryNum) \o ": " \o queryTitleOf(call.query)
        \o "\n**Timestamp**: " \o timestamp
        \o "\n**Raw**: [raw/" \o rawFilename \o "](raw/" \o rawFilename \o ")"
        \o "\n**Model**: " \o call.model
        \o (IF call.modelRationale # ""
            THEN " (" \o call.modelRationale \o ")" ELSE "")
        \o " | **Tokens**: " \o ToLocaleString(r.usage.total_tokens)
        \o (IF r.usage.num_search_queries # 0
            THEN " | **Searches**: " \o ToString(r.usage.num_search_queries)
            ELSE "")
        \o "\n\n"
        \o (IF call.approvedPlan # ""
            THEN "### Approved Plan\n" \o call.approvedPlan \o "\n\n" ELSE "")
        \o "### Findings\n\n" \o content \o "\n\n### Citations\n\n"
        \o formatCitations(r.citations) \o "\n"
        \o (IF Len(r.related) > 0
            THEN "\n### Related Questions\n\n"
                 \o Join([i \in 1..Len(r.related) |->
                            ToString(i) \o ". " \o r.related[i]], "\n")
                 \o "\n"
            ELSE "")
        \o "\n### Cost\n" \o cost \o "\n\n---\n\n"

\* Step 2: the filename, the query number (countQueriesInThread) and the
\* formatted entry. Reading response.usage throws when the response has none.
countQueriesInThread(fs, filePath) ==
    IF filePath \notin DOMAIN fs THEN 0 ELSE countQueries(fs[filePath])

\* the file operations of looking at a thread file
LookAt(fs, filePath) ==
    IF filePath \in DOMAIN fs THEN <<"exists md", "read md">>
    ELSE <<"exists md">>

formatStep(run, call, env) ==
    LET filePath == generateFilename(call.query, env.today)
        queryNum == countQueriesInThread(run.files, filePath) + 1
    IN  IF run.threw THEN run
        ELSE IF ~call.response.hasUsage THEN Throw(run, "format")
        ELSE [run EXCEPT
                !.filePath = filePath,
                !.queryNum = queryNum,
                !.entry = formatEntry(call, queryNum, run.rawFilename,
                                      formatDualTimestamp(env.now, env.today)),
                !.log = @ \o LookAt(run.files, filePath)]

SynthesisMarker == "## Synthesis"

\* the existing content with its synthesis section removed
stripSynthesis(existingContent) ==
    LET synthesisIndex == IndexOf(existingContent, SynthesisMarker)
    IN  IF synthesisIndex # 0
        THEN TrimEnd(SubSeq(existingContent, 1, synthesisIndex - 1)) \o "\n\n"
        ELSE existingContent

newFileContent(call, entry, synthesis) ==
    LET title == IF Len(call.query) > 80
                 THEN Substring(call.query, 0, 80) \o "..." ELSE call.query
    IN  "# " \o title \o "\n\nResearch thread for this topic.\n"
        \o (IF call.systemPrompt # "" THEN "\nContext: " \o call.systemPrompt
            ELSE "")
        \o "\n\n---\n\n" \o entry \o synthesis

\* Step 3: append to the thread file, or create it
updatedContent(run, call, synthesis) ==
    IF run.filePath \in DOMAIN run.files
    THEN stripSynthesis(run.files[run.filePath]) \o run.entry \o synthesis
    ELSE newFileContent(call, run.entry, synthesis)

appendStep(run, call, env) ==
    IF run.threw THEN run
    ELSE IF ~env.mdWriteOk
    THEN Throw([run EXCEPT !.log = @ \o LookAt(run.files, run.filePath)],
               "write md")
    ELSE [run EXCEPT
            !.files = Put(@, run.filePath,
                          updatedContent(run, call,
                              generateSynthesisSection(run.queryNum, env.today))),
            !.log = @ \o LookAt(run.files, run.filePath) \o <<"write md">>]

\* a variant of saveResearch that writes the raw backup last
saveResearchRawLast(fs, rawDir, call, env) ==
    saveRawResponse(appendStep(formatStep(StartRun(fs, rawDir), call, env),
                               call, env),
                    call, env)

\* saveResearch, lines 204-301: the raw backup, then the entry, then the file
saveResearchRun(fs, rawDir, call, env) ==
    appendStep(formatStep(saveRawResponse(StartRun(fs, rawDir), call, env),
                          call, env),
               call, env)

-----------------------------------------------------------------------------
(* SynthesisEngine: combining the results of the steps *)

\* A ModelResult is [model, content, citations].

Range(seq) == {seq[i] : i \in 1..Len(seq)}

\* results.flatMap(r => r.citations)
FlatCitations(results) ==
    LET F[i \in 0..Len(results)] ==
            IF i = 0 THEN <<>> ELSE F[i - 1] \o results[i].citations
    IN  F[Len(results)]

\* a variant of the filter that keeps the last occurrence of a url
keepLatest(acc, url) ==
    [out |-> Append(SelectSeq(acc.out, LAMBDA u : u # url), url),
     seen |-> acc.seen \cup {url}]

\* citations.filter(url => first time seen), with the seen set of the code:
\* one call of the filter callback
keepUnseen(acc, url) ==
    IF url \in acc.seen THEN acc
    ELSE [out |-> Append(acc.out, url), seen |-> acc.seen \cup {url}]

deduplicateCitations(citations) ==
    LET F[i \in 0..Len(citations)] ==
            IF i = 0 THEN [out |-> <<>>, seen |-> {}]
            ELSE keepUnseen(F[i - 1], citations[i])
    IN  F[Len(citations)].out

\* a variant that runs one model whatever the pattern
singleModel(pattern) == <<"sonar-reasoning-pro">>

getModelsForPattern(pattern) ==
    CASE pattern = "fact-reasoning" -> <<"sonar-pro", "sonar-reasoning-pro">>
      [] pattern = "quick-deep" -> <<"sonar", "sonar-deep-research">>
      [] pattern = "truthtracer" ->
            <<"sonar-pro", "sonar-reasoning-pro", "sonar-deep-research">>
      [] pattern = "multi-perspective" -> <<"sonar-pro", "sonar-reasoning-pro">>
      [] OTHER -> <<"sonar-reasoning-pro">>

\* results[0].citations.filter(url => citationSets.every(set => set.has(url)))
commonCitations(results) ==
    SelectSeq(results[1].citations,
              LAMBDA url : \A i \in 1..Len(results) :
                               url \in Range(results[i].citations))

SumOf(nums) ==
    LET F[i \in 0..Len(nums)] == IF i = 0 THEN 0 ELSE F[i - 1] + nums[i]
    IN  F[Len(nums)]

\* a variant of the comparison that also holds at equality
varianceReaches(n, sum, sumOfSquares) == 4 * n * sumOfSquares >= 5 * sum * sum

\* Math.sqrt(variance) > avgLength * 0.5 over the content lengths, in exact
\* arithmetic: with n lengths of sum S, 4 * n * (sum of squares) > 5 * S^2
varianceExceeds(n, sum, sumOfSquares) == 4 * n * sumOfSquares > 5 * sum * sum

depthVaries(results) ==
    varianceExceeds(
        Len(results),
        SumOf([i \in 1..Len(results) |-> Len(results[i].content)]),
        SumOf([i \in 1..Len(results) |->
                 Len(results[i].content) * Len(results[i].content)]))

\* a variant of the ladder that takes one conflict note for 'low'
confidenceOfAnyConflict(nCommon, nConflicts) ==
    IF nCommon > 3 /\ nConflicts = 0 THEN "high"
    ELSE IF nCommon > 1 THEN "medium-high"
    ELSE IF nConflicts > 0 THEN "low"
    ELSE "medium"

\* the ladder at the end of analyzeConsistency
confidenceOf(nCommon, nConflicts) ==
    IF nCommon > 3 /\ nConflicts = 0 THEN "high"
    ELSE IF nCommon > 1 THEN "medium-high"
    ELSE IF nConflicts > 1 THEN "low"
    ELSE "medium"

analyzeConsistency(results) ==
    LET nCommon == Len(commonCitations(results))
        conflicts ==
            IF depthVaries(results)
            THEN <<"Significant variance in response depth between models">>
            ELSE <<>>
    IN  IF Len(results) < 2
        THEN [agreements |-> <<>>, conflicts |-> <<>>, confidence |-> "medium"]
        ELSE [agreements |->
                  IF nCommon > 2
                  THEN <<ToString(nCommon) \o " sources cited by all models">>
                  ELSE <<>>,
              conflicts |-> conflicts,
              confidence |-> confidenceOf(nCommon, Len(conflicts))]

patternDescription(pattern) ==
    CASE pattern = "fact-reasoning" ->
            "Factual research followed by reasoning analysis"
      [] pattern = "quick-deep" -> "Quick assessment followed by deep research"
      [] pattern = "truthtracer" ->
            "Comprehensive fact-check with reasoning verification"
      [] pattern = "multi-perspective" -> "Multi-perspective analysis"
      [] OTHER -> "Multi-model synthesis"

SummaryExcerpt == 500

generateSummary(query, results, pattern, confidence) ==
    LET modelNames == Join([i \in 1..Len(results) |-> results[i].model], " -> ")
        totalCitations == Cardinality(Range(FlatCitations(results)))
        section(i) ==
            "### " \o ToString(i) \o ". " \o results[i].model \o "\n\n"
            \o Substring(results[i].content, 0, SummaryExcerpt)
            \o (IF Len(results[i].content) > SummaryExcerpt THEN "..." ELSE "")
            \o "\n\n*[" \o ToString(Len(results[i].citations)) \o " citations]*\n"
    IN  "## Synthesis Summary\n\n**Query**: " \o query
        \o "\n**Pattern**: " \o patternDescription(pattern)
        \o "\n**Models**: " \o modelNames
        \o "\n**Total Sources**: " \o ToString(totalCitations)
        \o "\n**Confidence**: " \o confidence \o "\n\n---\n\n"
        \o Join([i \in 1..Len(results) |-> section(i)], "\n")

\* a variant that returns the findings newest first
combineNewestFirst(query, results, pattern) ==
    [summary |-> "", agreements |-> <<>>, conflicts |-> <<>>,
     confidence |-> "medium", allCitations |-> <<>>,
     findings |-> [i \in 1..Len(results) |-> results[Len(results) + 1 - i]]]

combineResults(query, results, pattern) ==
    LET consistency == analyzeConsistency(results)
    IN  [summary |-> generateSummary(query, results, pattern,
                                     consistency.confidence),
         findings |-> results,
         agreements |-> consistency.agreements,
         conflicts |-> consistency.conflicts,
         confidence |-> consistency.confidence,
         allCitations |-> deduplicateCitations(FlatCitations(results))]

\* SynthesisEngine.formatSynthesis; the tick and the warning sign of the
\* source are written "v" and "!"
formatSynthesis(result) ==
    LET getModelLabel(model) ==
            CASE model = "sonar" -> "Quick Factual Research"
              [] model = "sonar-pro" -> "Multi-Source Research"
              [] model = "sonar-reasoning-pro" -> "Reasoning Analysis"
              [] model = "sonar-deep-research" -> "Deep Investigation"
              [] OTHER -> model
        finding(i) ==
            "### " \o getModelLabel(result.findings[i].model)
            \o " (" \o result.findings[i].model \o ")\n\n"
            \o result.findings[i].content
            \o "\n\n*Sources: " \o ToString(Len(result.findings[i].citations))
            \o " citations*\n\n"
        narrative ==
            CASE result.confidence = "high" ->
                    "- *Strong source agreement and consistent findings across models*\n"
              [] result.confidence = "medium-high" ->
                    "- *Good source overlap with minor variations in depth*\n"
              [] result.confidence = "medium" ->
                    "- *Moderate agreement; consider additional verification for critical decisions*\n"
              [] result.confidence = "low" ->
                    "- *Significant variance between models; findings should be verified independently*\n"
              [] OTHER -> ""
        citation(i) ==
            "[" \o ToString(i) \o "] " \o extractDomain(result.allCitations[i])
            \o (IF IndexOf(result.allCitations[i], "://") = 0 THEN ""
                ELSE "\n    " \o result.allCitations[i])
            \o "\n\n"
    IN  "## Summary\n\n" \o result.summary
        \o "\n\n---\n\n## Findings by Approach\n\n"
        \o Join([i \in 1..Len(result.findings) |-> finding(i)], "")
        \o "---\n\n## Synthesis\n\n### Areas of Agreement\n"
        \o (IF Len(result.agreements) > 0
            THEN Join([i \in 1..Len(result.agreements) |->
                         "- v " \o result.agreements[i] \o "\n"], "")
            ELSE "- *Cross-model agreement analysis pending deeper semantic comparison*\n")
        \o "\n### Areas of Conflict\n"
        \o (IF Len(result.conflicts) > 0
            THEN Join([i \in 1..Len(result.conflicts) |->
                         "- ! " \o result.conflicts[i] \o "\n"], "")
            ELSE "- *No significant conflicts detected*\n")
        \o "\n### Confidence Assessment\n- **Overall Confidence**: "
        \o result.confidence \o "\n" \o narrative
        \o "\n---\n\n## Citations\n\n"
        \o Join([i \in 1..Len(result.allCitations) |-> citation(i)], "")

-----------------------------------------------------------------------------
(* ResearchStore.searchResearch *)

RECURSIVE SplitWhitespace(_)
\* s.split(/\s+/)
SplitWhitespace(s) ==
    LET spaces == {i \in 1..Len(s) : IsSpace(CharAt(s, i))}
        i == MinOr(spaces, 0)
    IN  IF i = 0 THEN <<s>>
        ELSE <<SubSeq(s, 1, i - 1)>>
             \o SplitWhitespace(SubSeq(s, FirstNonSpace(s, i), Len(s)))

RECURSIVE SplitLines(_)
\* the lines of two adjacent pieces of text: the last line of the first
\* piece continues in the first line of the second
JoinPieces(left, right) ==
    SubSeq(left, 1, Len(left) - 1)
    \o <<left[Len(left)] \o right[1]>>
    \o Tail(right)

\* content.split('\n'), by halves
SplitLines(s) ==
    IF Len(s) <= 1 THEN (IF s = "\n" THEN <<"", "">> ELSE <<s>>)
    ELSE JoinPieces(SplitLines(SubSeq(s, 1, Len(s) \div 2)),
                    SplitLines(SubSeq(s, Len(s) \div 2 + 1, Len(s))))

\* a variant of the file test that is content with one term
AnyIncluded(contentLower, searchTerms) ==
    \E k \in 1..Len(searchTerms) : Includes(contentLower, searchTerms[k])

AllIncluded(contentLower, searchTerms) ==
    \A k \in 1..Len(searchTerms) : Includes(contentLower, searchTerms[k])

SomeIncluded(lineLower, searchTerms) ==
    \E k \in 1..Len(searchTerms) : Includes(lineLower, searchTerms[k])

\* searchTerms.every(term => contentLower.includes(term))
allTermsPresent(content, searchTerms) ==
    AllIncluded(ToLowerCase(content), searchTerms)

\* the context of line i: the line with its neighbours, trimmed
contextOf(lines, i) ==
    Trim(Join(SubSeq(lines, Max(1, i - 1), Min(Len(lines), i + 1)), "\n"))

\* what the loop over the lines looks at in turn i: the context when the
\* line holds some term, nothing otherwise
contextsOf(lines, searchTerms) ==
    [i \in 1..Len(lines) |->
        IF SomeIncluded(ToLowerCase(lines[i]), searchTerms)
        THEN contextOf(lines, i) ELSE ""]

\* the turns that push: a context that is not empty and not yet pushed
pushedAt(contexts) ==
    {i \in 1..Len(contexts) :
        /\ contexts[i] # ""
        /\ \A j \in 1..(i - 1) : contexts[j] # contexts[i]}

\* the number of snippets of one file (matchingLines.length)
matchingLines(content, searchTerms) ==
    Cardinality(pushedAt(contextsOf(SplitLines(content), searchTerms)))

SnippetLimit == 5

\* one turn of the loop over the files; matches is the number of snippets
\* returned, 0 when the file is not pushed to the results
searchOne(f, content, searchTerms) ==
    IF allTermsPresent(content, searchTerms)
    THEN [file |-> f,
          matches |-> Min(SnippetLimit, matchingLines(content, searchTerms))]
    ELSE [file |-> f, matches |-> 0]

searchAll(fs, searchTerms) ==
    {r \in {searchOne(f, fs[f], searchTerms) : f \in DOMAIN fs} : r.matches > 0}

\* the files searchResearch returns, each with its number of snippets
searchResearch(fs, keywords) ==
    searchAll(fs, SplitWhitespace(ToLowerCase(keywords)))

-----------------------------------------------------------------------------
(* The store as a state machine *)

GeneralPrompt ==
    "You are a research assistant. Provide comprehensive, well-cited answers. Be thorough but concise."

Usage(p, c, n) ==
    [prompt_tokens |-> p, completion_tokens |-> c, total_tokens |-> p + c,
     num_search_queries |-> n]

\* responses of the external API: a plain one, one whose text holds a
\* thinking block and a markdown heading of its own, one without usage
PlainResponse ==
    [id |-> "r1", hasUsage |-> TRUE, content |-> "Tokio is a runtime.",
     citations |-> <<"https://www.tokio.rs/a">>, related |-> <<>>,
     usage |-> Usage(12, 300, 0)]

HeadedResponse ==
    [id |-> "r2", hasUsage |-> TRUE,
     content |-> "<think>plan</think>Notes\n## Query 7: older\nGo on.",
     citations |-> <<>>, related |-> <<"Why?">>, usage |-> Usage(900, 400, 2)]

BareResponse ==
    [id |-> "r3", hasUsage |-> FALSE, content |-> "Cut",
     citations |-> <<>>, related |-> <<>>, usage |-> Usage(0, 0, 0)]

\* what the research handler is asked and what the API answers
ResearchCalls ==
    {[query |-> "Rust: async?", response |-> PlainResponse],
     [query |-> "rust async", response |-> HeadedResponse],
     [query |-> "go", response |-> BareResponse]}

\* results of a finished synthesize, as the deep_research handler receives them
SynthesisRuns ==
    {[pattern |-> "quick-deep",
      results |-> <<[model |-> "sonar", content |-> "Fast.",
                     citations |-> <<"https://a.io/1">>],
                    [model |-> "sonar-deep-research", content |-> "Deep view.",
                     citations |-> <<"https://a.io/1", "https://b.io/2">>]>>]}

NoRaw == [x \in {} |-> [model |-> "", topic |-> "", response |-> ""]]

NoSave ==
    [log |-> <<>>, threw |-> FALSE, rawFilename |-> "", filePath |-> "",
     query |-> "", response |-> "", entry |-> ""]

\* the constructor has made both directories; nothing is in them
NewDir == [root |-> TRUE, rawDir |-> TRUE, mtime |-> [x \in {} |-> 0], others |-> {}]

\* a variant that leaves a missing directory missing
leaveMissing(d) == d

\* a variant that makes both directories anew
makeAnew(d) == NewDir

\* mkdirSync(..., {recursive: true}) of whichever directory is missing
ensureDirectoriesExist(d) == [d EXCEPT !.root = TRUE, !.rawDir = TRUE]

\* the thread files a call wrote carry the day of the call
Stamp(d, before, after, day) ==
    [d EXCEPT !.mtime =
        [f \in DOMAIN after |->
            IF f \in DOMAIN before /\ before[f] = after[f] THEN d.mtime[f]
            ELSE day]]

NoResult == [op |-> "none", found |-> {}]

StoreIdle ==
    /\ files = NoFiles
    /\ raw = NoRaw
    /\ dir = NewDir
    /\ now = 0
    /\ today = 1
    /\ saves = 0
    /\ journal = [x \in {} |-> <<>>]
    /\ lastSave = NoSave

FnIdle == arg = "" /\ ret = NoResult

\* no synthesize call has been made
NoSynthesis ==
    [pc |-> "idle", pattern |-> "", models |-> <<>>, issued |-> <<>>,
     inFlight |-> {}, results |-> <<>>, failedAt |-> 0, raised |-> "",
     error |-> "", outcome |-> "none"]

SynthIdle == synth = NoSynthesis

InitStore == StoreIdle /\ SynthIdle /\ FnIdle

\* the store after a saveResearch call that ran as `run`, and what the
\* caller of the call answers
CommitRun(run, call, result) ==
    /\ saves' = saves + 1
    /\ files' = run.files
    /\ raw' = run.raw
    /\ dir' = Stamp(dir, files, run.files, today)
    /\ journal' = IF ~run.threw
                  THEN Put(journal, run.filePath,
                           (IF run.filePath \in DOMAIN journal
                            THEN journal[run.filePath] ELSE <<>>)
                           \o <<run.entry>>)
                  ELSE journal
    /\ lastSave' = [log |-> run.log, threw |-> run.threw,
                    rawFilename |-> run.rawFilename,
                    filePath |-> run.filePath,
                    query |-> call.query,
                    response |-> call.response.id,
                    entry |-> run.entry]
    /\ ret' = result
    /\ UNCHANGED <<now, today, synth>>

Commit(call, env) ==
    /\ saves < MaxSaves
    /\ arg' = ""
    /\ CommitRun(saveResearchRun(files, raw, call, env), call, NoResult)

\* what a save can find: the clock, and which of the two writeFileSync
\* calls the filesystem refuses, if any
EnvsAt(t, day) ==
    {[now |-> t, today |-> day, rawWriteOk |-> TRUE, mdWriteOk |-> TRUE],
     [now |-> t, today |-> day, rawWriteOk |-> FALSE, mdWriteOk |-> TRUE],
     [now |-> t, today |-> day, rawWriteOk |-> TRUE, mdWriteOk |-> FALSE]}

\* the arguments the research handler passes to saveResearch (lines 527-535)
researchSaveCall(query, response) ==
    [query |-> query, response |-> response,
     model |-> "sonar-reasoning-pro",
     systemPrompt |-> GeneralPrompt,
     modelRationale |-> "user-specified",
     approvedPlan |-> ""]

\* the synthetic response the deep_research handler stores (lines 592-599)
syntheticResponse(result) ==
    [id |-> "synthesis", hasUsage |-> TRUE, content |-> result.summary,
     citations |-> result.allCitations, related |-> <<>>,
     usage |-> Usage(0, 0, 0)]

\* the arguments the deep_research handler passes to saveResearch
\* (lines 600-607)
deepResearchSaveCall(query, pattern, result) ==
    [query |-> "[Deep Research] " \o query,
     response |-> syntheticResponse(result),
     model |-> "sonar-deep-research",
     systemPrompt |-> "Multi-model synthesis (" \o pattern \o ")",
     modelRationale |-> "user-specified " \o pattern \o " pattern",
     approvedPlan |-> "Compare runtimes"]

ResearchSave ==
    \E c \in ResearchCalls, env \in EnvsAt(now, today) :
        Commit(researchSaveCall(c.query, c.response), env)

DeepResearchSave ==
    \E run \in SynthesisRuns, env \in EnvsAt(now, today) :
        Commit(deepResearchSaveCall(
                   "rust async", run.pattern,
                   combineResults("rust async", run.results, run.pattern)),
               env)

SearchKeywords == {"tokio older", "Tokio runtime", "fast  GO", " notes"}

\* a searchResearch call; readdirSync throws when the directory is missing
SearchFor(keywords) ==
    /\ arg' = keywords
    /\ dir' = ensureDirectoriesExist(dir)
    /\ ret' = IF dir'.root
              THEN [op |-> "search", threw |-> FALSE,
                    found |-> searchResearch(files, keywords)]
              ELSE [op |-> "search", threw |-> TRUE, found |-> {}]
    /\ UNCHANGED <<files, raw, now, today, saves, journal, lastSave, synth>>

SearchResearch == \E keywords \in SearchKeywords : SearchFor(keywords)

NextStore ==
    \/ ResearchSave
    \/ DeepResearchSave
    \/ SearchResearch

SpecStore == InitStore /\ [][NextStore]_vars

-----------------------------------------------------------------------------
(* Properties of the store *)

\* C1: the k-th entry saved to a thread file on one day is headed
\* '## Query k:', so that N saves to one slug give the headers k = 1..N in
\* order, whatever text the saved findings contain.
C1_OrdinalsConsecutive ==
    \A f \in DOMAIN journal :
        \A k \in 1..Len(journal[f]) :
            StartsWith(journal[f][k], "## Query " \o ToString(k) \o ":")

\* C2: entries are append-only: the full text of every entry written to a
\* thread file is still in the file after every later save, whatever the
\* findings are.
C2_EntriesKept ==
    \A f \in DOMAIN journal :
        \A k \in 1..Len(journal[f]) : Includes(files[f], journal[f][k])

\* C3: in every saveResearch call the first file operation is the write of
\* the raw backup, before any look at the thread file, and whenever the call
\* went on past that write (whether it then failed or not) the backup of
\* that response is in raw/.
C3_RawBackupFirst ==
    lastSave.log # <<>> =>
        /\ lastSave.log[1] = "write raw"
        /\ \A i \in 2..Len(lastSave.log) : lastSave.log[i] # "write raw"
        /\ Len(lastSave.log) > 1 =>
               /\ lastSave.rawFilename \in DOMAIN raw
               /\ raw[lastSave.rawFilename].response = lastSave.response

\* C3 happens: a save failed after its backup was written (in formatting or
\* in the markdown write) and the backup is there
C3_FailedAfterBackup ==
    /\ lastSave.threw
    /\ Len(lastSave.log) > 1
    /\ lastSave.log[Len(lastSave.log)] \in {"format", "write md"}
    /\ lastSave.rawFilename \in DOMAIN raw

\* the whitespace-separated terms of a keywords string: its maximal pieces
\* without whitespace
TermsOf(keywords) ==
    {SubSeq(keywords, i, j) : <<i, j>> \in
        {p \in (1..Len(keywords)) \X (1..Len(keywords)) :
            /\ p[1] <= p[2]
            /\ \A k \in p[1]..p[2] : ~IsSpace(CharAt(keywords, k))
            /\ p[1] = 1 \/ IsSpace(CharAt(keywords, p[1] - 1))
            /\ p[2] = Len(keywords) \/ IsSpace(CharAt(keywords, p[2] + 1))}}

HoldsAllTerms(content, terms) ==
    \A term \in terms : Includes(ToLowerCase(content), ToLowerCase(term))

\* C10: searchResearch returns a file if and only if every
\* whitespace-separated term of the keywords occurs, case-insensitively as a
\* substring, somewhere in the file's content.
C10_SearchAllTerms ==
    ret.op = "search" =>
        \A f \in DOMAIN files :
            (\E r \in ret.found : r.file = f) <=> HoldsAllTerms(files[f], TermsOf(arg))

\* C10 happens: a search with two terms returned one file and left out
\* another that holds one of the terms only
C10_SomeFileLeftOut ==
    /\ ret.op = "search"
    /\ Cardinality(TermsOf(arg)) = 2
    /\ ret.found # {}
    /\ \E f \in DOMAIN files :
           /\ \A r \in ret.found : r.file # f
           /\ \E term \in TermsOf(arg) : HoldsAllTerms(files[f], {term})

\* the last saveResearch call wrote its entry
Saved(save) == save.log # <<>> /\ ~save.threw

\* C21: the thread file of a save is determined by the slug of its query
\* and the date: a save writes one thread file and leaves the others as they
\* are, and of two saves of one day the second writes the file of the first
\* if and only if the two queries have the same slug.
C21_ThreadIdentity ==
    [][(saves' = saves + 1 /\ Saved(lastSave')) =>
          /\ DOMAIN files' = DOMAIN files \cup {lastSave'.filePath}
          /\ \A g \in DOMAIN files \ {lastSave'.filePath} :
                 files'[g] = files[g]
          /\ (Saved(lastSave) /\ today' = today) =>
                 (lastSave'.filePath = lastSave.filePath
                    <=> SanitizeTopic(lastSave'.query, SlugLimit)
                          = SanitizeTopic(lastSave.query, SlugLimit))]_vars

\* C21 happens: two saves of one day with different queries of one slug
\* stand in one thread file, and no second file was made
C21_TwoQueriesOneFile ==
    /\ Saved(lastSave)
    /\ lastSave.query = "rust async"
    /\ DOMAIN files = {lastSave.filePath}
    /\ Len(journal[lastSave.filePath]) = 2
    /\ Includes(journal[lastSave.filePath][1], "Rust: async?")

\* C28: no raw backup is overwritten, also by saves of one slug within one
\* clock second: every entry written to a thread file links a file of raw/,
\* and raw/ holds a file of its own for every one of the entries.
C28_BackupsKept ==
    LET entries == UNION {{journal[f][k] : k \in 1..Len(journal[f])} :
                             f \in DOMAIN journal}
        linked == {name \in DOMAIN raw :
                      \E entry \in entries :
                         Includes(entry, "(raw/" \o name \o ")")}
    IN  /\ \A entry \in entries :
               \E name \in DOMAIN raw :
                  Includes(entry, "(raw/" \o name \o ")")
        /\ Cardinality(linked) = Cardinality(entries)

-----------------------------------------------------------------------------
(* Tool invocations in flight at once:
   the handler awaits the external call, then calls saveResearch, which
   holds no await and uses the synchronous file calls only *)

\* the handler is called and awaits client.search or synthesizer.synthesize
Invoke ==
    /\ saves + Cardinality(arg) < MaxSaves
    /\ \E id \in 1..(MaxSaves + 1), tool \in {"research", "deep_research"} :
        \E query \in (IF tool = "research"
                      THEN {"Rust: async?", "rust async",
                            "deep research rust async"}
                      ELSE {"rust async"}) :
           /\ id \notin {inv.id : inv \in arg}
           /\ 1..(id - 1) \subseteq {inv.id : inv \in arg}
           /\ arg' = arg \cup {[id |-> id, tool |-> tool, query |-> query]}
    /\ UNCHANGED <<storeVars, synth, ret>>

\* what the handler answers: which invocation it was, which ones were
\* still in flight, and whether it went on to save
flightResult(inv, saved) ==
    [op |-> "flight", id |-> inv.id, saved |-> saved,
     alongside |-> {other.id : other \in arg \ {inv}}]

\* the awaited call of one invocation returns and the handler calls
\* saveResearch, which runs to its end before any other handler runs
Complete ==
    \E inv \in arg :
       /\ arg' = arg \ {inv}
       /\ \E call \in (IF inv.tool = "research"
                        THEN {researchSaveCall(inv.query, response) :
                                 response \in {PlainResponse, HeadedResponse}}
                        ELSE {deepResearchSaveCall(
                                  inv.query, run.pattern,
                                  combineResults(inv.query, run.results,
                                                 run.pattern)) :
                                 run \in SynthesisRuns}) :
             CommitRun(saveResearchRun(files, raw, call,
                                       [now |-> now, today |-> today,
                                        rawWriteOk |-> TRUE,
                                        mdWriteOk |-> TRUE]),
                       call, flightResult(inv, TRUE))

\* the awaited call of one invocation is rejected: the handler returns
\* from its catch block
Reject ==
    \E inv \in arg :
       /\ arg' = arg \ {inv}
       /\ ret' = flightResult(inv, FALSE)
       /\ UNCHANGED <<storeVars, synth>>

InitFlight == StoreIdle /\ SynthIdle /\ arg = {} /\ ret = NoResult

NextFlight == Invoke \/ Complete \/ Reject

SpecFlight == InitFlight /\ [][NextFlight]_vars

\* the ordinal in the header of an entry, 0 when it has none
OrdinalOf(entry) ==
    LET heads == {n \in 1..20 :
                     StartsWith(entry, "## Query " \o ToString(n) \o ":")}
    IN  IF heads = {} THEN 0 ELSE CHOOSE n \in heads : TRUE

\* C22: when two invocations were in flight at once and the saves of both
\* went to one thread file, one after the other, the file holds the whole
\* entry of each and the second entry carries the ordinal after that of the
\* first.
C22_NoLostUpdate ==
    [][(/\ ret.op = "flight" /\ ret.saved /\ Saved(lastSave)
        /\ ret'.op = "flight" /\ ret'.saved /\ Saved(lastSave')
        /\ ret'.id \in ret.alongside
        /\ lastSave'.filePath = lastSave.filePath) =>
          /\ Includes(files'[lastSave'.filePath], lastSave.entry)
          /\ Includes(files'[lastSave'.filePath], lastSave'.entry)
          /\ OrdinalOf(lastSave.entry) > 0
          /\ OrdinalOf(lastSave'.entry) = OrdinalOf(lastSave.entry) + 1]_vars

-----------------------------------------------------------------------------
(* ResearchStore.generateFilename as a function of the query *)

\* a long word, to cut queries from
LongWord == "aaaaaaaaaaaaaaaaaaaaaaaaaaaaaaaaaaaaaaaaaaaaaaaaaaaaaaaaaaaa"

SuffixChars == {"a", "Z", " ", "-"}

RECURSIVE Suffixes(_)
\* the texts of n characters
Suffixes(n) ==
    IF n = 0 THEN {""}
    ELSE {s \o c : s \in Suffixes(n - 1), c \in SuffixChars}

\* queries around the length at which the slug is cut: a word followed by
\* up to MaxSuffix more characters
FilenameQueries ==
    {SubSeq(LongWord, 1, k) \o suffix :
        k \in {0} \cup ((SlugLimit - 3)..SlugLimit),
        suffix \in UNION {Suffixes(n) : n \in 0..MaxSuffix}}

InitFilename ==
    /\ StoreIdle
    /\ SynthIdle
    /\ arg \in FilenameQueries
    /\ ret = NoResult

GenerateFilename ==
    /\ ret' = [op |-> "filename", name |-> generateFilename(arg, today),
               again |-> generateFilename(arg, today)]
    /\ UNCHANGED <<storeVars, synth, arg>>

SpecFilename == InitFilename /\ [][GenerateFilename]_vars

\* the slug part of a filename: the name without its '-<date>.md' suffix
SlugOf(name) == SubSeq(name, 1, Len(name) - Len("-2024-01-01.md"))

\* C9: generateFilename returns the same name on every call, and the slug
\* part has at most 50 characters, holds only lower-case alphanumerics and
\* single hyphens, and neither starts nor ends with a hyphen.
C9_SlugWellFormed ==
    ret.op = "filename" =>
        /\ ret.name = ret.again
        /\ Len(SlugOf(ret.name)) <= 50
        /\ \A i \in 1..Len(SlugOf(ret.name)) :
              \/ IsLowerAlnum(CharAt(SlugOf(ret.name), i))
              \/ /\ CharAt(SlugOf(ret.name), i) = "-"
                 /\ i > 1
                 /\ i < Len(SlugOf(ret.name))
                 /\ CharAt(SlugOf(ret.name), i + 1) # "-"

-----------------------------------------------------------------------------
(* PerplexityClient.analyzeQueryForModel *)

DeepResearchIndicators ==
    {"comprehensive", "exhaustive", "deep dive", "research report",
     "due diligence", "market analysis"}

ReasoningIndicators ==
    {"why", "how does", "explain", "analyze", "compare", "evaluate",
     "trade-off", "pros and cons", "debug", "troubleshoot", "root cause"}

LookupIndicators ==
    {"what is", "who is", "when did", "where is", "current price", "latest"}

WordLimit == 10

IncludesSome(queryLower, phrases) ==
    \E phrase \in phrases : Includes(queryLower, phrase)

\* the third condition of the classifier
isSimpleLookup(queryLower, wordCount) ==
    /\ wordCount < WordLimit
    /\ \/ IncludesSome(queryLower, LookupIndicators)
       \/ StartsWith(queryLower, "define ")

ReasoningChoice ==
    [recommended |-> "sonar-reasoning-pro",
     reason |-> "Query requires reasoning, analysis, or causal explanation"]

classify(queryLower, wordCount) ==
    IF IncludesSome(queryLower, DeepResearchIndicators)
    THEN [recommended |-> "sonar-deep-research",
          reason |-> "Query requests comprehensive/exhaustive research"]
    ELSE IF IncludesSome(queryLower, ReasoningIndicators) THEN ReasoningChoice
    ELSE IF isSimpleLookup(queryLower, wordCount)
    THEN [recommended |-> "sonar", reason |-> "Simple factual lookup query"]
    ELSE [recommended |-> "sonar-reasoning-pro",
          reason |->
              "Default model for comprehensive analysis with reasoning traces"]

\* a variant of the classifier that looks at the reasoning indicators first
analyzeReasoningFirst(query) ==
    IF IncludesSome(ToLowerCase(query), ReasoningIndicators) THEN ReasoningChoice
    ELSE classify(ToLowerCase(query), Len(SplitWhitespace(query)))

analyzeQueryForModel(query) ==
    classify(ToLowerCase(query), Len(SplitWhitespace(query)))

\* the number of filler words a generated query may carry
MaxFiller == 8

Openers ==
    {<<>>, <<"Define", "entropy">>, <<"please", "define", "entropy">>,
     <<"What", "is", "rust">>, <<"why", "rust">>}

Topics ==
    {<<>>, <<"comprehensive">>, <<"annual", "report">>,
     <<"research", "report">>, <<"latest">>}

Margins == {"", " "}

ClassifierQueries ==
    {lead \o Join(opener \o topic \o [i \in 1..n |-> "x"], " ") \o trail :
        lead \in Margins, trail \in Margins,
        opener \in Openers, topic \in Topics, n \in 0..MaxFiller}

InitClassify ==
    /\ StoreIdle
    /\ SynthIdle
    /\ arg \in ClassifierQueries
    /\ ret = NoResult

AnalyzeQueryForModel ==
    /\ ret' = [op |-> "classify",
               recommended |-> analyzeQueryForModel(arg).recommended,
               again |-> analyzeQueryForModel(arg).recommended]
    /\ UNCHANGED <<storeVars, synth, arg>>

SpecClassify == InitClassify /\ [][AnalyzeQueryForModel]_vars

\* a phrase of the set occurs in the query, in any letter case
Mentions(query, phrases) ==
    \E phrase \in phrases : Includes(ToLowerCase(query), phrase)

\* the number of words of a query: its maximal pieces without whitespace
WordsIn(query) ==
    Cardinality({i \in 1..Len(query) :
                    /\ ~IsSpace(CharAt(query, i))
                    /\ i = 1 \/ IsSpace(CharAt(query, i - 1))})

\* the number of pieces whitespace runs cut a query into
PiecesIn(query) ==
    1 + Cardinality({i \in 1..Len(query) :
                        /\ IsSpace(CharAt(query, i))
                        /\ i = 1 \/ ~IsSpace(CharAt(query, i - 1))})

\* C7 as stated: first matching rule wins, with 'report' among the rule-1
\* phrases, 'define' among the factual-lookup phrases, and the length of the
\* query counted in words.
C7_PriorityAsStated ==
    ret.op = "classify" =>
        ret.recommended =
            IF Mentions(arg, {"comprehensive", "exhaustive", "deep dive",
                              "report", "due diligence", "market analysis"})
            THEN "sonar-deep-research"
            ELSE IF Mentions(arg, {"why", "how does", "explain", "analyze",
                                   "compare", "evaluate", "trade-off",
                                   "pros and cons", "debug", "troubleshoot",
                                   "root cause"})
            THEN "sonar-reasoning-pro"
            ELSE IF /\ WordsIn(arg) < 10
                    /\ Mentions(arg, {"what is", "who is", "when did",
                                      "where is", "define", "current price",
                                      "latest"})
            THEN "sonar"
            ELSE "sonar-reasoning-pro"

\* C7, amended: the classifier is a function of the query in which the first
\* matching rule wins: a rule-1 phrase (comprehensive, exhaustive, deep dive,
\* research report, due diligence, market analysis) gives
\* sonar-deep-research even when rule-2 or rule-3 phrases are present;
\* otherwise a rule-2 phrase gives sonar-reasoning-pro; otherwise a query
\* that whitespace runs cut into fewer than 10 pieces and that holds a
\* lookup phrase (what is, who is, when did, where is, current price,
\* latest) or starts with 'define ' gives sonar; otherwise
\* sonar-reasoning-pro.
C7_Priority ==
    ret.op = "classify" =>
        /\ ret.recommended = ret.again
        /\ ret.recommended =
            IF Mentions(arg, {"comprehensive", "exhaustive", "deep dive",
                              "research report", "due diligence",
                              "market analysis"})
            THEN "sonar-deep-research"
            ELSE IF Mentions(arg, {"why", "how does", "explain", "analyze",
                                   "compare", "evaluate", "trade-off",
                                   "pros and cons", "debug", "troubleshoot",
                                   "root cause"})
            THEN "sonar-reasoning-pro"
            ELSE IF /\ PiecesIn(arg) < 10
                    /\ \/ Mentions(arg, {"what is", "who is", "when did",
                                         "where is", "current price", "latest"})
                       \/ StartsWith(ToLowerCase(arg), "define ")
            THEN "sonar"
            ELSE "sonar-reasoning-pro"

\* C7 happens: a query with a rule-1 phrase and a rule-2 phrase was
\* classified as deep research
C7_BothRulesMatch ==
    /\ ret.op = "classify"
    /\ Mentions(arg, {"comprehensive"})
    /\ Mentions(arg, {"why"})
    /\ ret.recommended = "sonar-deep-research"

-----------------------------------------------------------------------------
(* SynthesisEngine.synthesize as a process *)

\* The call is at "loop" between two turns of the for loop, at "await" while
\* it waits for client.search, and ends "done" (it returned) or "failed" (it
\* rejected). issued is the log of the calls made to the client, inFlight
\* the calls not yet answered; failedAt and raised record which call the
\* client failed and with what.

SynthesisPatterns ==
    {"fact-reasoning", "quick-deep", "truthtracer", "multi-perspective",
     "other"}

SearchErrors == {"NetworkError", "APIError"}

ApiResponses == {PlainResponse, HeadedResponse, BareResponse}

SynthQuery == "rust async"

\* a variant of the loop condition that does not wait for the answer
mayIssueEarly(s) ==
    /\ s.pc \in {"loop", "await"}
    /\ Len(s.issued) < Len(s.models)

\* the for loop has a next model to run, and is not waiting
mayIssue(s) ==
    /\ s.pc = "loop"
    /\ Len(s.issued) < Len(s.models)

\* a variant that catches the failure of a step and goes on with the next
swallowFailure(s, err) ==
    [s EXCEPT !.pc = "loop",
              !.results = Append(@, [model |-> s.models[Len(s.issued)],
                                     content |-> "", citations |-> <<>>])]

\* the rejection of client.search leaves the loop and rejects synthesize
onFailure(s, err) == [s EXCEPT !.pc = "failed", !.error = err]

\* results.push of lines 55-64
resultOf(model, response) ==
    [model |-> model, content |-> stripThinkingBlocks(response.content),
     citations |-> response.citations]

Synthesize ==
    \E pattern \in SynthesisPatterns :
        /\ synth.pc = "idle"
        /\ synth' = [synth EXCEPT !.pc = "loop", !.pattern = pattern,
                                  !.models = getModelsForPattern(pattern)]
        /\ UNCHANGED <<storeVars, arg, ret>>

IssueSearch ==
    /\ mayIssue(synth)
    /\ synth' = [synth EXCEPT
                   !.pc = "await",
                   !.issued = Append(@, synth.models[Len(synth.issued) + 1]),
                   !.inFlight = @ \cup {Len(synth.issued) + 1}]
    /\ UNCHANGED <<storeVars, arg, ret>>

SearchReturns ==
    \E k \in synth.inFlight, response \in ApiResponses :
        /\ synth.pc = "await"
        /\ synth' = [synth EXCEPT
                       !.pc = "loop",
                       !.inFlight = @ \ {k},
                       !.results = Append(@, resultOf(synth.models[k], response))]
        /\ UNCHANGED <<storeVars, arg, ret>>

SearchFails ==
    \E k \in synth.inFlight, err \in SearchErrors :
        /\ synth.pc = "await"
        /\ synth' = onFailure([synth EXCEPT !.inFlight = @ \ {k},
                                            !.failedAt = k,
                                            !.raised = err], err)
        /\ UNCHANGED <<storeVars, arg, ret>>

\* what the caller gets of the SynthesisResult
outcomeOf(result) ==
    [findings |-> [i \in 1..Len(result.findings) |-> result.findings[i].model],
     confidence |-> result.confidence,
     allCitations |-> result.allCitations]

SynthesizeReturns ==
    /\ synth.pc = "loop"
    /\ Len(synth.issued) = Len(synth.models)
    /\ synth' = [synth EXCEPT
                   !.pc = "done",
                   !.outcome = outcomeOf(combineResults(SynthQuery, synth.results,
                                                        synth.pattern))]
    /\ UNCHANGED <<storeVars, arg, ret>>

\* the deep_research handler renders the result it was given
FormatSynthesis ==
    /\ synth.pc = "done"
    /\ ret = NoResult
    /\ ret' = [op |-> "format",
               text |-> formatSynthesis(
                            combineResults(SynthQuery, synth.results,
                                           synth.pattern))]
    /\ UNCHANGED <<storeVars, synth, arg>>

InitSynth == StoreIdle /\ SynthIdle /\ FnIdle

NextSynth ==
    \/ Synthesize
    \/ IssueSearch
    \/ SearchReturns
    \/ SearchFails
    \/ SynthesizeReturns
    \/ FormatSynthesis

SpecSynth == InitSynth /\ [][NextSynth]_vars

\* C4: when the k-th client.search call of a synthesize fails, synthesize
\* has failed with that same error, no call for a later step has been
\* issued, and no SynthesisResult has been produced.
C4_FailurePropagates ==
    synth.failedAt # 0 =>
        /\ synth.pc = "failed"
        /\ synth.error = synth.raised
        /\ Len(synth.issued) = synth.failedAt
        /\ synth.inFlight = {}
        /\ synth.outcome = "none"

\* C4 happens: the second of three steps failed
C4_SecondOfThreeFailed ==
    /\ synth.failedAt = 2
    /\ Len(synth.models) = 3
    /\ synth.pc = "failed"
    /\ synth.error = "NetworkError"

\* C5: at most one call of a synthesize is in flight, the call for step
\* i + 1 is issued only after the response for step i has been received,
\* and the calls are issued in the model order of the pattern.
C5_OneCallAtATime ==
    /\ Cardinality(synth.inFlight) <= 1
    /\ Len(synth.issued) <= Len(synth.results) + 1
    /\ synth.inFlight # {} => Len(synth.issued) = Len(synth.results) + 1
    /\ Len(synth.issued) <= Len(synth.models)
    /\ \A i \in 1..Len(synth.issued) : synth.issued[i] = synth.models[i]
    /\ synth.pc # "idle" => synth.models = getModelsForPattern(synth.pattern)

\* C5 happens: the call for the third step is in flight after two responses
C5_ThirdCallInFlight ==
    /\ Len(synth.issued) = 3
    /\ Len(synth.results) = 2
    /\ synth.inFlight = {3}

\* C16: a synthesize that succeeds has issued exactly the calls of its
\* pattern, one for each model and in this order: fact-reasoning sonar-pro,
\* sonar-reasoning-pro; quick-deep sonar, sonar-deep-research; truthtracer
\* sonar-pro, sonar-reasoning-pro, sonar-deep-research; multi-perspective
\* sonar-pro, sonar-reasoning-pro; any other pattern sonar-reasoning-pro.
C16_PatternModels ==
    synth.pc = "done" =>
        /\ synth.issued =
              IF synth.pattern \in {"fact-reasoning", "multi-perspective"}
              THEN <<"sonar-pro", "sonar-reasoning-pro">>
              ELSE IF synth.pattern = "quick-deep"
              THEN <<"sonar", "sonar-deep-research">>
              ELSE IF synth.pattern = "truthtracer"
              THEN <<"sonar-pro", "sonar-reasoning-pro", "sonar-deep-research">>
              ELSE <<"sonar-reasoning-pro">>
        /\ Len(synth.results) = Len(synth.issued)
        /\ \A i \in 1..Len(synth.results) : synth.results[i].model = synth.issued[i]

\* a synthesize of three steps has succeeded
C16_TruthtracerDone ==
    /\ synth.pc = "done"
    /\ synth.pattern = "truthtracer"
    /\ Len(synth.results) = 3

\* where the subsection of a model starts in a rendered synthesis, 0 when
\* there is none
SubsectionAt(text, model) == IndexOf(text, " (" \o model \o ")\n\n")

\* C25: the SynthesisResult holds one finding per executed step, the i-th
\* with the model of the i-th call made to the client, and formatSynthesis
\* renders one subsection per finding in that same order.
C25_FindingsInOrder ==
    /\ synth.pc = "done" =>
           /\ Len(synth.outcome.findings) = Len(synth.models)
           /\ synth.outcome.findings = synth.issued
    /\ ret.op = "format" =>
           \A i \in 1..Len(synth.issued) :
              /\ SubsectionAt(ret.text, synth.issued[i]) > 0
              /\ \A j \in (i + 1)..Len(synth.issued) :
                     SubsectionAt(ret.text, synth.issued[i])
                        < SubsectionAt(ret.text, synth.issued[j])

\* C25 happens: a synthesis of three steps with different contents was
\* rendered
C25_ThreeFindingsRendered ==
    /\ ret.op = "format"
    /\ Len(synth.issued) = 3
    /\ synth.results[1].content # synth.results[3].content

-----------------------------------------------------------------------------
(* SynthesisEngine.combineResults as a function of the step results *)

\* the longest citation list of the first step
MaxCites == 4

Urls == {"a", "b", "c", "d"}

RECURSIVE CitationLists(_)
\* the citation lists of n urls
CitationLists(n) ==
    IF n = 0 THEN {<<>>}
    ELSE {Append(l, u) : l \in CitationLists(n - 1), u \in Urls}

FirstStepCitations == UNION {CitationLists(n) : n \in 0..MaxCites}

LaterStepCitations == {<<>>, <<"b", "d">>, <<"a", "b">>, <<"a", "b", "c", "d">>}

\* the texts of the two steps: of like length, and one much longer
StepContents ==
    {<<"Short answer.", "Other answer.">>,
     <<"Short answer.", "A much longer answer that goes into every detail.">>}

StepResults ==
    {<<[model |-> "sonar-pro", content |-> contents[1], citations |-> first],
       [model |-> "sonar-reasoning-pro", content |-> contents[2],
        citations |-> later]>> :
        first \in FirstStepCitations, later \in LaterStepCitations,
        contents \in StepContents}

InitCombine ==
    /\ StoreIdle
    /\ SynthIdle
    /\ arg \in StepResults
    /\ ret = NoResult

\* the SynthesisResult without its texts, and its rendering
combined(result) ==
    [op |-> "combine", allCitations |-> result.allCitations,
     agreements |-> result.agreements, conflicts |-> result.conflicts,
     confidence |-> result.confidence, rendered |-> formatSynthesis(result)]

CombineResults ==
    /\ ret' = combined(combineResults(SynthQuery, arg, "fact-reasoning"))
    /\ UNCHANGED <<storeVars, synth, arg>>

SpecCombine == InitCombine /\ [][CombineResults]_vars

\* the urls of the steps, in execution order
CitedInOrder(results) ==
    IF Len(results) = 0 THEN <<>>
    ELSE results[1].citations \o results[2].citations

\* where a url first occurs in a list
FirstAt(list, url) ==
    CHOOSE i \in 1..Len(list) :
        list[i] = url /\ \A j \in 1..(i - 1) : list[j] # url

\* C6: allCitations holds each url that occurs in any step exactly once, in
\* the order of the first occurrences in the concatenation of the steps'
\* lists in execution order.
C6_FirstSeenOrder ==
    ret.op = "combine" =>
        /\ {ret.allCitations[i] : i \in 1..Len(ret.allCitations)}
             = {CitedInOrder(arg)[i] : i \in 1..Len(CitedInOrder(arg))}
        /\ \A i, j \in 1..Len(ret.allCitations) :
              i < j =>
                 /\ ret.allCitations[i] # ret.allCitations[j]
                 /\ FirstAt(CitedInOrder(arg), ret.allCitations[i])
                      < FirstAt(CitedInOrder(arg), ret.allCitations[j])

\* C6 happens: the lists [a,b,a,c] and [b,d] gave [a,b,c,d]
C6_ExampleLists ==
    /\ ret.op = "combine"
    /\ arg[1].citations = <<"a", "b", "a", "c">>
    /\ arg[2].citations = <<"b", "d">>
    /\ ret.allCitations = <<"a", "b", "c", "d">>

\* the urls every step cites
CitedByAll(results) ==
    {u \in Urls : \A i \in 1..Len(results) :
                     \E k \in 1..Len(results[i].citations) :
                        results[i].citations[k] = u}

\* C8: for two or more step results the confidence is 'high' with more than
\* 3 common citations and no conflict note, otherwise 'medium-high' with
\* more than 1 common citation, otherwise 'low' with 2 or more conflict
\* notes, otherwise 'medium'.
C8_ConfidenceLadder ==
    ret.op = "combine" =>
        ret.confidence =
            IF Cardinality(CitedByAll(arg)) > 3 /\ Len(ret.conflicts) = 0
            THEN "high"
            ELSE IF Cardinality(CitedByAll(arg)) > 1 THEN "medium-high"
            ELSE IF Len(ret.conflicts) >= 2 THEN "low"
            ELSE "medium"

\* C27: the common-citation count is the number of distinct urls that every
\* step cites, also when a list repeats a url, and the agreement note is
\* recorded, with that count, exactly when the count is greater than 2.
C27_CommonCount ==
    ret.op = "combine" =>
        ret.agreements =
            IF Cardinality(CitedByAll(arg)) > 2
            THEN <<ToString(Cardinality(CitedByAll(arg)))
                   \o " sources cited by all models">>
            ELSE <<>>

\* C29: the conflicts list holds at most one note, so the confidence is
\* 'medium', 'medium-high' or 'high', never 'low', and the rendering never
\* holds the narrative of low confidence.
C29_NeverLow ==
    ret.op = "combine" =>
        /\ Len(ret.conflicts) <= 1
        /\ ret.confidence \in {"medium", "medium-high", "high"}
        /\ ~Includes(ret.rendered, "**Overall Confidence**: low")
        /\ ~Includes(ret.rendered, "Significant variance between models")

\* C29 happens: a conflict note was recorded with no common citation, and
\* the confidence is 'medium'
C29_ConflictGivesMedium ==
    /\ ret.op = "combine"
    /\ Len(ret.conflicts) = 1
    /\ CitedByAll(arg) = {}
    /\ ret.confidence = "medium"
    /\ Includes(ret.rendered, "**Overall Confidence**: medium\n")

-----------------------------------------------------------------------------
(* SynthesisEngine.analyzeConsistency as a function of the content lengths *)

\* the longest content of a step, in characters
MaxLength == 6

MaxSteps == 3

\* the results of up to MaxSteps steps, with contents of every length up to
\* MaxLength and no citations
InitDepth ==
    /\ StoreIdle
    /\ SynthIdle
    /\ arg \in UNION {[1..n -> {[model |-> "sonar-pro",
                                 content |-> SubSeq(LongWord, 1, l),
                                 citations |-> <<>>] : l \in 0..MaxLength}] :
                        n \in 1..MaxSteps}
    /\ ret = NoResult

AnalyzeConsistency ==
    /\ ret' = [op |-> "analyze",
               conflicts |-> analyzeConsistency(arg).conflicts]
    /\ UNCHANGED <<storeVars, synth, arg>>

SpecDepth == InitDepth /\ [][AnalyzeConsistency]_vars

\* the content lengths of the steps
LengthsOf(results) == [i \in 1..Len(results) |-> Len(results[i].content)]

\* C26: the depth-variance note is recorded exactly when the population
\* standard deviation of the content lengths exceeds half their mean, which
\* for n lengths of sum S is 4 * n * (sum of squares) > 5 * S^2; for two
\* results that is exactly when the longer content has more than 3 times the
\* length of the shorter, and with all lengths 0 there is no note.
C26_DepthVariance ==
    ret.op = "analyze" =>
        LET l == LengthsOf(arg)
            n == Len(l)
            S == SumOf(l)
            noted == ret.conflicts
                       = <<"Significant variance in response depth between models">>
        IN  /\ noted \/ ret.conflicts = <<>>
            /\ noted <=> 4 * SumOf([i \in 1..n |-> (n * l[i] - S) * (n * l[i] - S)])
                            > n * S * S
            /\ noted <=> 4 * n * SumOf([i \in 1..n |-> l[i] * l[i]]) > 5 * S * S
            /\ n = 2 => (noted <=> Max(l[1], l[2]) > 3 * Min(l[1], l[2]))
            /\ S = 0 => ~noted

\* C26 happens: of two contents one is exactly 3 times as long as the
\* other, and no note was recorded
C26_ThreeTimesAsLong ==
    /\ ret.op = "analyze"
    /\ Len(arg) = 2
    /\ Len(arg[2].content) > 0
    /\ Len(arg[1].content) = 3 * Len(arg[2].content)
    /\ ret.conflicts = <<>>

-----------------------------------------------------------------------------
(* stripThinkingBlocks as a function of the content *)

\* the longest generated content, in pieces
MaxPieces == 5

RECURSIVE Contents(_)
\* the contents of n pieces: markers, halves of a marker, and text
Contents(n) ==
    IF n = 0 THEN {""}
    ELSE {c \o piece : c \in Contents(n - 1),
                       piece \in {"<think>", "</think>", "<thi", "nk>", "a "}}

InitStrip ==
    /\ StoreIdle
    /\ SynthIdle
    /\ arg \in UNION {Contents(n) : n \in 0..MaxPieces}
    /\ ret = NoResult

StripThinkingBlocks ==
    /\ ret' = [op |-> "strip", text |-> stripThinkingBlocks(arg)]
    /\ UNCHANGED <<storeVars, synth, arg>>

SpecStrip == InitStrip /\ [][StripThinkingBlocks]_vars

\* a start marker followed later by an end marker
HoldsThinkingBlock(text) ==
    \E i \in 1..Len(text) :
        /\ MatchesAt(text, "<think>", i)
        /\ \E j \in (i + 7)..Len(text) : MatchesAt(text, "</think>", j)

\* C11: the stripped text holds no thinking block (no '<think>' followed
\* later by '</think>'), and stripping it a second time changes nothing.
C11_StrippedForGood ==
    ret.op = "strip" =>
        /\ ~HoldsThinkingBlock(ret.text)
        /\ stripThinkingBlocks(ret.text) = ret.text

-----------------------------------------------------------------------------
(* ResearchStore: listThreads and readThread *)

\* one ResearchThread record of listThreads, from a file and the day of its
\* mtime; the regular expressions carry the m flag and are tried line by line
threadRecord(filename, content, day) ==
    LET lines == SplitLines(content)
        \* filename.replace('.md', '')
        md == IndexOf(filename, ".md")
        id == IF md = 0 THEN filename
              ELSE SubSeq(filename, 1, md - 1) \o SubSeq(filename, md + 3, Len(filename))
        EndsWith(l, p) == Len(l) >= Len(p) /\ MatchesAt(l, p, Len(l) - Len(p) + 1)
        After(l, p) == SubSeq(l, Len(p) + 1, Len(l))
        First(Test(_)) == MinOr({i \in 1..Len(lines) : Test(lines[i])}, 0)
        \* /^# (.+?)(?:\n|$)/m, /^# (.+) Research$/m, /^# Research Thread: (.+)$/m
        v3 == First(LAMBDA l : StartsWith(l, "# ") /\ Len(l) > 2)
        v2 == First(LAMBDA l : /\ StartsWith(l, "# ") /\ EndsWith(l, " Research")
                               /\ Len(l) > 11)
        v1 == First(LAMBDA l : StartsWith(l, "# Research Thread: ") /\ Len(l) > 19)
        topic == IF v2 > 0
                 THEN SubSeq(lines[v2], 3, Len(lines[v2]) - 9)
                 ELSE IF v1 > 0 THEN After(lines[v1], "# Research Thread: ")
                 ELSE IF v3 > 0 THEN After(lines[v3], "# ")
                 ELSE id
        \* /^## Query \d+: (.+)$/m, /^## Query\n(.+)$/m, /^## Research: (.+)$/m
        QueryEnd(l) == DigitsEnd(l, 10)
        v3Query == First(LAMBDA l : /\ QueryHeaderAt(l, 1)
                                    /\ MatchesAt(l, ": ", QueryEnd(l))
                                    /\ Len(l) > QueryEnd(l) + 1)
        v2Query == MinOr({i \in 1..(Len(lines) - 1) :
                            lines[i] = "## Query" /\ lines[i + 1] # ""}, 0)
        v1Query == First(LAMBDA l : StartsWith(l, "## Research: ") /\ Len(l) > 13)
        summary == IF v3Query > 0
                   THEN SubSeq(lines[v3Query], QueryEnd(lines[v3Query]) + 2,
                               Len(lines[v3Query]))
                   ELSE IF v2Query > 0 THEN lines[v2Query + 1]
                   ELSE IF v1Query > 0 THEN After(lines[v1Query], "## Research: ")
                   ELSE ""
        \* /\*\*Model\*\*: (\S+)/ and /^## Model Used\n(\S+)/m
        modelLine == First(LAMBDA l : \E i \in 1..Len(l) :
                                /\ MatchesAt(l, "**Model**: ", i)
                                /\ i + 11 <= Len(l)
                                /\ ~IsSpace(CharAt(l, i + 11)))
        modelAt == MinOr({i \in 1..Len(lines[modelLine]) :
                            /\ MatchesAt(lines[modelLine], "**Model**: ", i)
                            /\ i + 11 <= Len(lines[modelLine])
                            /\ ~IsSpace(CharAt(lines[modelLine], i + 11))}, 0)
        WordAt(l, at) ==
            SubSeq(l, at, MinOr({k \in at..Len(l) : IsSpace(CharAt(l, k))},
                                Len(l) + 1) - 1)
        altModel == MinOr({i \in 1..(Len(lines) - 1) :
                            /\ lines[i] = "## Model Used"
                            /\ lines[i + 1] # ""
                            /\ ~IsSpace(CharAt(lines[i + 1], 1))}, 0)
        model == IF modelLine > 0 THEN WordAt(lines[modelLine], modelAt + 11)
                 ELSE IF altModel > 0 THEN WordAt(lines[altModel + 1], 1)
                 ELSE "sonar-reasoning-pro"
    IN  [id |-> id,
         topic |-> topic,
         date |-> IsoDate(day),
         model |-> model,
         query |-> summary,
         summary |-> Substring(summary, 0, 100)
                     \o (IF Len(summary) > 100 THEN "..." ELSE ""),
         filePath |-> filename]

\* the entries readdirSync(researchDir) reports: the thread files, the raw
\* directory, and whatever else the environment has put there
readdirSync(d, fs) ==
    {[name |-> f, isFile |-> TRUE] : f \in DOMAIN fs}
    \cup (IF d.rawDir THEN {[name |-> "raw", isFile |-> FALSE]} ELSE {})
    \cup d.others

\* a variant that keeps the order of readdirSync
asReported(records, day) == records

RECURSIVE sortByDate(_, _)
\* records.sort((a, b) => b.date.localeCompare(a.date)): the sort is stable,
\* and the dates compare as their days do
sortByDate(records, day) ==
    IF day = 0 THEN <<>>
    ELSE SelectSeq(records, LAMBDA r : r.date = IsoDate(day))
         \o sortByDate(records, day - 1)

\* the results listThreads can have: the records of the thread files, in the
\* order readdirSync reports the files, then sorted
listThreads(d, fs) ==
    LET \* .filter(e => e.isFile() && e.name.endsWith('.md')).map(e => e.name)
        threadFiles ==
            {e.name : e \in {x \in readdirSync(d, fs) :
                                /\ x.isFile
                                /\ Len(x.name) >= 3
                                /\ MatchesAt(x.name, ".md", Len(x.name) - 2)}}
        records == {threadRecord(f, fs[f], d.mtime[f]) : f \in threadFiles}
        \* the orders in which readdirSync may report the files
        Orders == {order \in [1..Cardinality(records) -> records] :
                     \A i, j \in DOMAIN order : order[i] = order[j] => i = j}
    IN  {sortByDate(order, 9) : order \in Orders}

\* files next to the research directory, reached as '../name'
ParentFiles == [x \in {"plans.md"} |-> "Private plans."]

\* the outcomes readThread(topicOrId) can have; which of several matching
\* entries files.find() meets first is up to readdirSync
readThread(d, fs, topicOrId) ==
    LET NotFound == [threw |-> FALSE, isNull |-> TRUE, content |-> ""]
        Content(text) == [threw |-> FALSE, isNull |-> FALSE, content |-> text]
        \* readFileSync of a directory throws EISDIR
        ReadFile(entry) ==
            IF entry.isFile THEN Content(fs[entry.name])
            ELSE [threw |-> TRUE, isNull |-> FALSE, content |-> ""]
        name == topicOrId \o ".md"
        \* path.join(researchDir, name) resolves a leading '../'
        above == SubSeq(name, 4, Len(name))
        exact == {e \in readdirSync(d, fs) : e.name = name}
        matches == {e \in readdirSync(d, fs) :
                      /\ Includes(ToLowerCase(e.name), ToLowerCase(topicOrId))
                      /\ Len(e.name) >= 3
                      /\ MatchesAt(e.name, ".md", Len(e.name) - 2)}
    IN  IF StartsWith(name, "../") /\ above \in DOMAIN ParentFiles
        THEN {Content(ParentFiles[above])}
        ELSE IF exact # {} THEN {ReadFile(e) : e \in exact}
        ELSE IF matches # {} THEN {ReadFile(e) : e \in matches}
        ELSE {NotFound}

\* listRawFiles: the set of lists it can return. The records are sorted by
\* timestamp, newest first; records of one timestamp stay in the order
\* readdirSync reports them, which is left open.
listRawFiles(d, rawDir) ==
    LET names == {f \in DOMAIN rawDir :
                     Len(f) >= 5 /\ MatchesAt(f, ".json", Len(f) - 4)}
        \* /^(\d{8}_\d{6})_(.+)\.json$/
        matches(f) ==
            /\ Len(f) >= 22
            /\ \A i \in (1..8) \cup (10..15) : IsDigit(CharAt(f, i))
            /\ CharAt(f, 9) = "_"
            /\ CharAt(f, 16) = "_"
        spaced(t) == Join([i \in 1..Len(t) |->
                             IF CharAt(t, i) = "-" THEN " " ELSE CharAt(t, i)], "")
        record(f) ==
            IF matches(f)
            THEN [filename |-> f, timestamp |-> SubSeq(f, 1, 15),
                  topic |-> spaced(SubSeq(f, 17, Len(f) - 5))]
            ELSE [filename |-> f, timestamp |-> "", topic |-> f]
        code(c) == IndexOf("_0123456789", c)
        \* a.localeCompare(b) < 0 for timestamps
        before(a, b) ==
            \/ \E i \in 1..Min(Len(a), Len(b)) :
                  /\ SubSeq(a, 1, i - 1) = SubSeq(b, 1, i - 1)
                  /\ code(CharAt(a, i)) < code(CharAt(b, i))
            \/ Len(a) < Len(b) /\ a = SubSeq(b, 1, Len(a))
        n == Cardinality(names)
    IN  IF ~d.rawDir THEN {<<>>}
        ELSE {list \in [1..n -> {record(f) : f \in names}] :
                 /\ \A i, j \in 1..n : i # j => list[i] # list[j]
                 /\ \A i, j \in 1..n :
                        i < j => ~before(list[i].timestamp, list[j].timestamp)}

\* readRawFile: null for a name that is not in raw/, else the parsed data
readRawFile(d, rawDir, filename) ==
    IF d.rawDir /\ filename \in DOMAIN rawDir
    THEN [isNull |-> FALSE, data |-> rawDir[filename]]
    ELSE [isNull |-> TRUE,
          data |-> [model |-> "", topic |-> "", response |-> ""]]

-----------------------------------------------------------------------------
(* The research directory over several days, with its environment *)

\* the last day of a run
MaxDay == 2

\* the directory the constructor finds holds entries that are no threads
InitThreads ==
    /\ files = NoFiles
    /\ raw = NoRaw
    /\ dir = [NewDir EXCEPT !.others = {[name |-> "notes.txt", isFile |-> TRUE],
                                       [name |-> "archive.md", isFile |-> FALSE]}]
    /\ now = 0
    /\ today = 1
    /\ saves = 0
    /\ journal = [x \in {} |-> <<>>]
    /\ lastSave = NoSave
    /\ SynthIdle
    /\ FnIdle

\* the research handler's saveResearch call; writeFileSync fails in a
\* directory that does not exist
ThreadSave ==
    \E query \in {"Market Research", "rust async"} :
        Commit(researchSaveCall(query, PlainResponse),
               [now |-> now, today |-> today,
                rawWriteOk |-> dir.rawDir, mdWriteOk |-> dir.root])

NextDay ==
    /\ today < MaxDay
    /\ today' = today + 1
    /\ UNCHANGED <<files, raw, dir, now, saves, journal, lastSave, synth, arg, ret>>

\* the environment deletes the research directory, or its raw/ subdirectory
Environment ==
    /\ \/ /\ dir.root
          /\ files' = NoFiles
          /\ raw' = NoRaw
          /\ dir' = [NewDir EXCEPT !.root = FALSE, !.rawDir = FALSE]
          /\ journal' = [x \in {} |-> <<>>]
       \/ /\ dir.rawDir
          /\ raw' = NoRaw
          /\ dir' = [dir EXCEPT !.rawDir = FALSE]
          /\ UNCHANGED <<files, journal>>
    /\ arg' = ""
    /\ ret' = NoResult
    /\ UNCHANGED <<now, today, saves, lastSave, synth>>

ListThreads ==
    /\ dir' = ensureDirectoriesExist(dir)
    /\ arg' = ""
    /\ \E threads \in listThreads(dir', files) :
          ret' = IF dir'.root
                 THEN [op |-> "list", threw |-> FALSE, threads |-> threads]
                 ELSE [op |-> "list", threw |-> TRUE, threads |-> <<>>]
    /\ UNCHANGED <<files, raw, now, today, saves, journal, lastSave, synth>>

ReadThread ==
    \E topicOrId \in {"rust-async-2024-01-01", "RUST", "zig", "archive", "../plans"} :
        /\ dir' = ensureDirectoriesExist(dir)
        /\ arg' = topicOrId
        /\ \E out \in readThread(dir', files, topicOrId) :
              ret' = IF dir'.root
                     THEN [op |-> "read", threw |-> out.threw,
                           isNull |-> out.isNull, content |-> out.content]
                     ELSE [op |-> "read", threw |-> TRUE,
                           isNull |-> FALSE, content |-> ""]
        /\ UNCHANGED <<files, raw, now, today, saves, journal, lastSave, synth>>

ListRawFiles ==
    /\ dir' = ensureDirectoriesExist(dir)
    /\ arg' = ""
    /\ \E entries \in listRawFiles(dir', raw) :
          ret' = [op |-> "list raw", entries |-> entries]
    /\ UNCHANGED <<files, raw, now, today, saves, journal, lastSave, synth>>

ReadRawFile ==
    \E filename \in DOMAIN raw \cup {"20240101_000000_zig.json"} :
        /\ arg' = filename
        /\ ret' = [op |-> "read raw", out |-> readRawFile(dir, raw, filename)]
        /\ UNCHANGED <<storeVars, synth>>

\* the caller takes the result; the next call is accepted after that
Return ==
    /\ ret # NoResult
    /\ ret' = NoResult
    /\ arg' = ""
    /\ UNCHANGED <<storeVars, synth>>

NextThreads ==
    \/ ret = NoResult /\ ThreadSave
    \/ ret = NoResult /\ NextDay
    \/ ret = NoResult /\ Environment
    \/ ret = NoResult /\ ListThreads
    \/ ret = NoResult /\ ReadThread
    \/ ret = NoResult /\ SearchFor("Market research")
    \/ ret = NoResult /\ ListRawFiles
    \/ ret = NoResult /\ ReadRawFile
    \/ Return

SpecThreads == InitThreads /\ [][NextThreads]_vars

-----------------------------------------------------------------------------
(* Properties of the research directory *)

\* one save has been made, into a directory that held nothing, and what it
\* wrote is still there
OneSaveStands ==
    /\ saves = 1
    /\ ~lastSave.threw
    /\ dir.others = {}
    /\ lastSave.filePath \in DOMAIN files
    /\ lastSave.rawFilename \in DOMAIN raw

\* C12: after one successful research(q) into an empty research directory
\* there is exactly one thread file, with exactly one query entry, and one
\* raw backup that the entry links to, and list_research_threads reports
\* exactly one thread, whose topic is the title written for q (q itself
\* when q has at most 80 characters).
C12_SaveListRoundTrip ==
    (ret.op = "list" /\ OneSaveStands) =>
        /\ DOMAIN files = {lastSave.filePath}
        /\ Len(journal[lastSave.filePath]) = 1
        /\ countQueries(files[lastSave.filePath]) = 1
        /\ DOMAIN raw = {lastSave.rawFilename}
        /\ Includes(files[lastSave.filePath], "raw/" \o lastSave.rawFilename)
        /\ Len(ret.threads) = 1
        /\ Len(lastSave.query) <= 80 => ret.threads[1].topic = lastSave.query

\* C18: readThread(id) returns the content of the file named id + '.md' if
\* the research directory has one; otherwise the content of a thread file
\* whose name contains id, letter case aside; otherwise null. No error is
\* raised, and the result is null or the content of a thread file of the
\* research directory.
C18_ReadResolution ==
    ret.op = "read" =>
        LET named == {f \in DOMAIN files :
                        Includes(ToLowerCase(f), ToLowerCase(arg))}
        IN  /\ ~ret.threw
            /\ IF (arg \o ".md") \in DOMAIN files
               THEN ~ret.isNull /\ ret.content = files[arg \o ".md"]
               ELSE IF named # {}
               THEN ~ret.isNull /\ \E f \in named : ret.content = files[f]
               ELSE ret.isNull

\* C19: listThreads returns exactly one record per regular '.md' file of the
\* research root, none for the raw directory or for any other entry, and
\* the records are in the order of the modification dates, latest first.
C19_ListedByDate ==
    (ret.op = "list" /\ ~ret.threw) =>
        LET t == ret.threads
        IN  /\ {t[i].filePath : i \in 1..Len(t)} = DOMAIN files
            /\ Len(t) = Cardinality(DOMAIN files)
            /\ \A i \in 1..Len(t) : t[i].date = IsoDate(dir.mtime[t[i].filePath])
            /\ \A i, j \in 1..Len(t) :
                  i < j => dir.mtime[t[i].filePath] >= dir.mtime[t[j].filePath]

\* threads of two days are listed from a directory that also holds the raw
\* backups and entries that are no threads
C19_TwoDaysListed ==
    /\ ret.op = "list"
    /\ Len(ret.threads) = 2
    /\ ret.threads[1].date # ret.threads[2].date
    /\ dir.others # {}
    /\ raw # NoRaw

\* C20: after the environment has deleted the research directory or its raw
\* subdirectory, listThreads, readThread and searchResearch make the
\* directories again and complete; with the research directory deleted
\* they report no thread, no match, and null for an id within the directory.
C20_ReadsTolerateDeletion ==
    ret.op \in {"list", "read", "search"} =>
        /\ dir.root
        /\ dir.rawDir
        /\ (files = NoFiles /\ dir.others = {}) =>
              /\ ~ret.threw
              /\ ret.op = "list" => ret.threads = <<>>
              /\ ret.op = "search" => ret.found = {}
              /\ (ret.op = "read" /\ ~StartsWith(arg, "../")) => ret.isNull

\* a thread was saved, the research directory was deleted, and a thread is
\* then asked for by its id
C20_ReadAfterDeletion ==
    /\ ret.op = "read"
    /\ arg = "rust-async-2024-01-01"
    /\ ~lastSave.threw
    /\ lastSave.filePath = "rust-async-2024-01-01.md"
    /\ files = NoFiles
    /\ dir.others = {}

\* C30: listThreads, readThread, searchResearch, listRawFiles and
\* readRawFile leave every thread file, its content, its modification day and
\* every raw backup as they were; the one change they may make is to create
\* a research or raw directory that was missing.
C30_ReadsChangeNothing ==
    [][ret'.op \in {"list", "read", "search", "list raw", "read raw"} =>
          /\ files' = files
          /\ raw' = raw
          /\ dir' = [dir EXCEPT !.root = dir'.root, !.rawDir = dir'.rawDir]
          /\ dir.root => dir'.root
          /\ dir.rawDir => dir'.rawDir]_vars

\* C30 happens: the raw backups were listed while a thread file and its
\* backup stood in the store
C30_BackupsListed ==
    /\ ret.op = "list raw"
    /\ Len(ret.entries) > 0
    /\ ret.entries[1].filename \in DOMAIN raw
    /\ DOMAIN files # {}

-----------------------------------------------------------------------------
(* PerplexityClient.search *)

\* the longest options.messages
MaxMessages == 2

\* a variant that sends the caller's messages when there are any
callerMessages(query, options) ==
    IF "messages" \in options.given
    THEN options.messages \o <<[role |-> "user", content |-> query]>>
    ELSE <<[role |-> "system", content |-> GeneralPrompt],
           [role |-> "user", content |-> query]>>

\* the messages of the request; options.given names the fields the caller
\* has set
requestMessages(query, options) ==
    LET systemPrompt ==
            IF /\ "messages" \in options.given
               /\ Len(options.messages) > 0
               /\ options.messages[1].role = "system"
            THEN options.messages[1].content
            ELSE GeneralPrompt
    IN  <<[role |-> "system", content |-> systemPrompt],
          [role |-> "user", content |-> query]>>

\* one search call and how it ends. transport is what fetch and the reading
\* of the body do: fetch rejects, or resolves with a status and a body that
\* is JSON, is no JSON, or breaks off while it is read
search(query, model, options, transport) ==
    LET request ==
            [model |-> model,
             messages |-> requestMessages(query, options),
             max_tokens |-> IF "max_tokens" \in options.given
                            THEN options.max_tokens ELSE 4000,
             temperature |-> "0.2",
             return_citations |-> TRUE]
        sent == [request |-> request, requests |-> 1]
        ok == transport.status >= 200 /\ transport.status <= 299
    IN  IF transport.rejects
        THEN [op |-> "search call", sent |-> sent, outcome |-> "Error",
              status |-> 0,
              message |-> "Network error calling Perplexity API: "
                          \o transport.body]
        ELSE IF transport.breaksOff
        THEN [op |-> "search call", sent |-> sent, outcome |-> "TypeError",
              status |-> 0, message |-> "terminated"]
        ELSE IF ~ok
        THEN [op |-> "search call", sent |-> sent,
              outcome |-> "PerplexityAPIError",
              status |-> transport.status,
              message |-> "Perplexity API error ("
                          \o ToString(transport.status) \o "): "
                          \o transport.body]
        ELSE IF ~transport.isJson
        THEN [op |-> "search call", sent |-> sent, outcome |-> "SyntaxError",
              status |-> 0, message |-> "Unexpected token"]
        ELSE [op |-> "search call", sent |-> sent, outcome |-> "returned",
              status |-> transport.status, message |-> transport.body]

InitClientSearch ==
    /\ StoreIdle
    /\ SynthIdle
    /\ ret = NoResult
    /\ \E n \in 0..MaxMessages :
       \E messages \in [1..n -> [role : {"system", "user", "assistant"},
                                 content : {"Be brief.", "Hello"}]] :
       \E given \in SUBSET {"messages", "max_tokens"} :
          arg = [query |-> "rust async", model |-> "sonar",
                 options |-> [given |-> given, messages |-> messages,
                              max_tokens |-> 8000]]

ClientSearch ==
    /\ ret = NoResult
    /\ \E transport \in
          [rejects : {TRUE}, breaksOff : {FALSE}, status : {0}, isJson : {FALSE},
           body : {"fetch failed"}]
          \cup [rejects : {FALSE}, breaksOff : BOOLEAN, status : {200, 401, 500},
                isJson : BOOLEAN, body : {"{...}", "Bad gateway"}] :
          ret' = search(arg.query, arg.model, arg.options, transport)
    /\ UNCHANGED <<storeVars, synth, arg>>

SpecClientSearch == InitClientSearch /\ [][ClientSearch]_vars

\* C13: the request of every search call has exactly two messages: a system
\* message, with the content of options.messages[0] when that has the role
\* 'system' and with the general prompt otherwise, and then the user message
\* with the query; no other message of the caller is sent.
C13_TwoMessages ==
    ret.op = "search call" =>
        LET sent == ret.sent.request.messages
            own == arg.options.messages
        IN  /\ Len(sent) = 2
            /\ sent[1].role = "system"
            /\ sent[1].content =
                  IF /\ "messages" \in arg.options.given
                     /\ own # <<>>
                     /\ own[1].role = "system"
                  THEN own[1].content ELSE GeneralPrompt
            /\ sent[2] = [role |-> "user", content |-> arg.query]

\* a caller whose two messages are both system messages
C13_TwoSystemMessagesGiven ==
    /\ ret.op = "search call"
    /\ "messages" \in arg.options.given
    /\ Len(arg.options.messages) = 2
    /\ \A i \in 1..2 : arg.options.messages[i].role = "system"
    /\ arg.options.messages[1].content # arg.options.messages[2].content

\* C14: every search call makes exactly one request and ends in one of
\* three ways: the parsed response is returned, a network error is raised
\* when the transport cannot complete the call, or an API error with the
\* status and the body is raised when the status is no success.
C14_ThreeOutcomes ==
    ret.op = "search call" =>
        /\ ret.sent.requests = 1
        /\ \/ ret.outcome = "returned"
           \/ /\ ret.outcome = "Error"
              /\ StartsWith(ret.message, "Network error calling Perplexity API")
           \/ /\ ret.outcome = "PerplexityAPIError"
              /\ ret.status \notin 200..299

-----------------------------------------------------------------------------
(* recommendPattern as a function of the query *)

\* a variant that looks for the words of quick-deep first
recommendDepthFirst(query) ==
    LET queryLower == ToLowerCase(query)
    IN  IF IncludesSome(queryLower, {"comprehensive", "exhaustive", "deep dive"})
        THEN "quick-deep"
        ELSE IF IncludesSome(queryLower, {"fact check", "is it true", "verify",
                                          "due diligence"})
        THEN "truthtracer"
        ELSE IF IncludesSome(queryLower, {"why", "how", "compare", "evaluate"})
        THEN "fact-reasoning"
        ELSE "multi-perspective"

recommendPattern(query) ==
    LET queryLower == ToLowerCase(query)
    IN  IF IncludesSome(queryLower, {"fact check", "is it true", "verify",
                                     "due diligence"})
        THEN "truthtracer"
        ELSE IF IncludesSome(queryLower, {"comprehensive", "exhaustive", "deep dive"})
        THEN "quick-deep"
        ELSE IF IncludesSome(queryLower, {"why", "how", "compare", "evaluate"})
        THEN "fact-reasoning"
        ELSE "multi-perspective"

InitRecommend ==
    /\ StoreIdle
    /\ SynthIdle
    /\ ret = NoResult
    /\ arg \in {reason \o depth \o check \o topic :
                  reason \in {"", "Why ", "how to ", "Compare and ", "evaluate "},
                  depth \in {"", "a COMPREHENSIVE ", "an exhaustive ", "a Deep Dive into "},
                  check \in {"", "Fact Check of ", "is it TRUE that ", "verify ",
                             "due diligence on "},
                  topic \in {"rust", "a fact-checked story", "the show"}}

RecommendPattern ==
    /\ ret = NoResult
    /\ ret' = [op |-> "recommend", pattern |-> recommendPattern(arg)]
    /\ UNCHANGED <<storeVars, synth, arg>>

SpecRecommend == InitRecommend /\ [][RecommendPattern]_vars

\* the query holds one of the phrases, letter case aside
Says(phrases) == \E p \in phrases : Includes(ToLowerCase(arg), p)

\* C17: recommendPattern looks for its phrases without regard to letter
\* case and in a fixed order: 'fact check', 'verify', 'is it true' or
\* 'due diligence' gives truthtracer, whatever else the query holds;
\* otherwise 'comprehensive', 'exhaustive' or 'deep dive' gives quick-deep;
\* otherwise 'why', 'how', 'compare' or 'evaluate' gives fact-reasoning;
\* otherwise the result is multi-perspective.
C17_PatternPriority ==
    ret.op = "recommend" =>
        ret.pattern =
            IF Says({"fact check", "verify", "is it true", "due diligence"})
            THEN "truthtracer"
            ELSE IF Says({"comprehensive", "exhaustive", "deep dive"})
            THEN "quick-deep"
            ELSE IF Says({"why", "how", "compare", "evaluate"})
            THEN "fact-reasoning"
            ELSE "multi-perspective"

\* a query in mixed case that holds a phrase of each of the three lists
C17_PhrasesOfAllLists ==
    /\ ret.op = "recommend"
    /\ arg = "Compare and a Deep Dive into is it TRUE that rust"
    /\ ret.pattern = "truthtracer"

-----------------------------------------------------------------------------
(* The CallTool handler *)

\* PerplexityClient.formatResponseWithCitations; model is response.model
formatResponseWithCitations(response, model) ==
    LET hostname(url) ==
            LET i == IndexOf(url, "://")
                rest == SubSeq(url, i + 3, Len(url))
                j == IndexOf(rest, "/")
            IN  IF i = 0 THEN "" ELSE IF j = 0 THEN rest ELSE SubSeq(rest, 1, j - 1)
        source(i) ==
            IF hostname(response.citations[i]) = ""
            THEN "[" \o ToString(i) \o "] " \o response.citations[i] \o "\n"
            ELSE "[" \o ToString(i) \o "] " \o hostname(response.citations[i])
                 \o "\n    " \o response.citations[i] \o "\n"
        question(i) == ToString(i) \o ". " \o response.related[i] \o "\n"
    IN  stripThinkingBlocks(response.content)
        \o (IF Len(response.citations) > 0
            THEN "\n\n---\n\n## Sources\n\n"
                 \o Join([i \in 1..Len(response.citations) |-> source(i)], "")
            ELSE "")
        \o (IF Len(response.related) > 0
            THEN "\n---\n\n## Related Questions\n\n"
                 \o Join([i \in 1..Len(response.related) |-> question(i)], "")
            ELSE "")
        \o "\n---\n\n*Model: " \o model \o " | Tokens: "
        \o ToString(response.usage.total_tokens) \o "*"
        \o (IF response.usage.num_search_queries # 0
            THEN " | *Searches: " \o ToString(response.usage.num_search_queries) \o "*"
            ELSE "")

\* the tool invocations of one run that reach saveResearch
MaxToolSaves == 1

\* A tool result is [op, name, failed, isError, text]; failed names the step
\* that threw: "search", "synthesize", "store", or "none".

\* the message of the error a saveResearch run has thrown
thrownBy(run) ==
    IF run.log[Len(run.log)] = "format"
    THEN "Cannot read properties of undefined (reading 'prompt_tokens')"
    ELSE "ENOSPC: no space left on device, write"

\* a variant that saves whatever the external call did
saveAnyway(ok, fs, rawDir, call, env) == saveResearchRun(fs, rawDir, call, env)

\* what one invocation of research or deep_research does to the store:
\* saveResearch is called once the awaited call has returned, and not at
\* all when it was rejected
handlerRun(ok, fs, rawDir, call, env) ==
    IF ok THEN saveResearchRun(fs, rawDir, call, env) ELSE StartRun(fs, rawDir)

\* the research tool
ToolResearch ==
    \E model \in {"", "sonar-pro"}, context \in {"general", "rca"},
       answer \in [ok : {TRUE}, response : {PlainResponse, BareResponse},
                   message : {""}]
                  \cup [ok : {FALSE}, response : {BareResponse},
                        message : {"Network error calling Perplexity API: fetch failed",
                                   "Perplexity API error (401): Unauthorized"}],
       env \in EnvsAt(now, today) :
        LET query == "rust async"
            forced == IF context = "rca" /\ model = ""
                      THEN "sonar-reasoning-pro" ELSE model
            recommendation == analyzeQueryForModel(query)
            chosen == IF forced = "" THEN recommendation.recommended ELSE forced
            modelRationale ==
                IF forced = "" THEN recommendation.reason
                ELSE IF context = "rca"
                THEN "RCA/debugging requires reasoning model"
                ELSE "user-specified"
            systemPrompt ==
                IF context = "general" THEN GeneralPrompt
                ELSE "You are a root cause analysis expert. Follow systematic debugging methodology:"
            call == [researchSaveCall(query, answer.response) EXCEPT
                       !.model = chosen, !.systemPrompt = systemPrompt,
                       !.modelRationale = modelRationale]
            run == handlerRun(answer.ok, files, raw, call, env)
            result(failed, text) ==
                [op |-> "tool", name |-> "research", failed |-> failed,
                 isError |-> failed # "none", text |-> text,
                 context |-> context, sent |-> chosen,
                 classified |-> forced = ""]
        IN  IF ~answer.ok
            THEN /\ env.rawWriteOk /\ env.mdWriteOk
                 /\ arg' = ""
                 /\ ret' = result("search",
                        "**API call failed**: " \o answer.message
                        \o "\n\n**Options:**\n1. **Retry** with same model ("
                        \o chosen \o ")\n2. **Try alternative model**: "
                        \o (IF chosen = "sonar-reasoning-pro" THEN "sonar-pro"
                            ELSE "sonar-reasoning-pro")
                        \o "\n3. **Reformulate query** - simplify or clarify the question"
                        \o "\n4. **Abort** - cancel this research"
                        \o "\n\nWhat would you like to do?")
                 /\ files' = run.files
                 /\ raw' = run.raw
                 /\ UNCHANGED <<dir, now, today, saves, journal, lastSave, synth>>
            ELSE /\ saves < MaxToolSaves
                 /\ arg' = ""
                 /\ CommitRun(run, call,
                        IF run.threw
                        THEN result("store", "Error: " \o thrownBy(run))
                        ELSE result("none",
                                 formatResponseWithCitations(answer.response, chosen)
                                 \o "\n\n---\n*Saved to: " \o run.filePath \o "*"))

\* the deep_research tool; synthesize either rejects or returns the results
\* of the models of the pattern
ToolDeepResearch ==
    \E given \in {"", "truthtracer"}, rejects \in BOOLEAN,
       env \in EnvsAt(now, today) :
        LET query == "rust async"
            pattern == IF given = "" THEN recommendPattern(query) ELSE given
            patternRationale ==
                IF given = ""
                THEN "auto-selected " \o pattern \o " pattern based on query analysis"
                ELSE "user-specified " \o pattern \o " pattern"
            models == getModelsForPattern(pattern)
            synthesized ==
                combineResults(query,
                    [i \in 1..Len(models) |-> resultOf(models[i], PlainResponse)],
                    pattern)
            call == [deepResearchSaveCall(query, pattern, synthesized) EXCEPT
                       !.modelRationale = patternRationale, !.approvedPlan = ""]
            run == handlerRun(~rejects, files, raw, call, env)
            result(failed, text) ==
                [op |-> "tool", name |-> "deep_research", failed |-> failed,
                 isError |-> failed # "none", text |-> text]
        IN  IF rejects
            THEN /\ env.rawWriteOk /\ env.mdWriteOk
                 /\ arg' = ""
                 /\ ret' = result("synthesize",
                        "**Deep research failed**: "
                        \o "Network error calling Perplexity API: fetch failed"
                        \o "\n\n**Options:**\n1. **Retry** with same pattern ("
                        \o pattern \o ")\n2. **Try simpler pattern**: "
                        \o (IF pattern = "truthtracer" THEN "fact-reasoning"
                            ELSE "quick-deep")
                        \o "\n3. **Use single model** instead via research tool"
                        \o "\n4. **Abort** - cancel this research"
                        \o "\n\nWhat would you like to do?")
                 /\ files' = run.files
                 /\ raw' = run.raw
                 /\ UNCHANGED <<dir, now, today, saves, journal, lastSave, synth>>
            ELSE /\ saves < MaxToolSaves
                 /\ arg' = ""
                 /\ CommitRun(run, call,
                        IF run.threw
                        THEN result("store", "Error: " \o thrownBy(run))
                        ELSE result("none",
                                 formatSynthesis(synthesized)
                                 \o "\n\n---\n*Saved to: " \o run.filePath \o "*"))

\* the tools that read the store: search_research, list_research_threads and
\* read_research_thread. Of the text of a successful search only the
\* heading is kept.
ToolRead ==
    /\ dir' = ensureDirectoriesExist(dir)
    /\ arg' = ""
    /\ \E name \in {"search_research", "list_research_threads",
                     "read_research_thread"},
          topic \in {"rust", "zig", "archive"},
          threads \in listThreads(dir', files) :
       \E out \in readThread(dir', files, topic) :
          LET results == searchResearch(files, topic)
              row(i) == "| " \o threads[i].date \o " | " \o threads[i].topic
                        \o " | " \o threads[i].model \o " | "
                        \o threads[i].summary \o " |\n"
              result(failed, text) ==
                  [op |-> "tool", name |-> name, failed |-> failed,
                   isError |-> failed # "none", text |-> text]
          IN  ret' =
                CASE name = "search_research" ->
                        IF results = {}
                        THEN result("none", "No existing research found for \""
                                    \o topic \o "\". You may proceed with a new query.")
                        ELSE result("none", "## Found "
                                    \o ToString(Cardinality(results))
                                    \o " research thread(s) matching \""
                                    \o topic \o "\"\n\n")
                  [] name = "list_research_threads" ->
                        IF threads = <<>>
                        THEN result("none", "No research threads found.\nResearch directory: research")
                        ELSE result("none", "## Research Threads ("
                                    \o ToString(Len(threads))
                                    \o ")\n\n*Directory: research*\n\n"
                                    \o "| Date | Topic | Model | Summary |\n"
                                    \o "|------|-------|-------|----------|\n"
                                    \o Join([i \in 1..Len(threads) |-> row(i)], ""))
                  [] OTHER ->
                        IF out.threw
                        THEN result("store",
                                    "Error: EISDIR: illegal operation on a directory, read")
                        ELSE IF out.isNull \/ out.content = ""
                        THEN result("none", "Research thread \"" \o topic
                                    \o "\" not found. Use list_research_threads to see available threads.")
                        ELSE result("none", out.content)
    /\ UNCHANGED <<files, raw, now, today, saves, journal, lastSave, synth>>

\* list_models, and a name that is no tool; the guide of list_models is a
\* fixed text, of which the heading is kept
ToolOther ==
    /\ arg' = ""
    /\ \E name \in {"list_models", "summarize"} :
          ret' = [op |-> "tool", name |-> name, failed |-> "none",
                  isError |-> name # "list_models",
                  text |-> IF name = "list_models"
                           THEN "## Perplexity Sonar Models\n"
                           ELSE "Unknown tool: " \o name]
    /\ UNCHANGED <<storeVars, synth>>

NextTool ==
    \/ ret = NoResult /\ ToolResearch
    \/ ret = NoResult /\ ToolDeepResearch
    \/ ret = NoResult /\ ToolRead
    \/ ret = NoResult /\ ToolOther
    \/ Return

SpecTool == InitThreads /\ [][NextTool]_vars

\* C15: every tool invocation in which a step fails (the external call, the
\* synthesis, or an operation of the store) returns an error text that
\* lists the options for the next step.
C15_FailuresListOptions ==
    (ret.op = "tool" /\ ret.failed # "none") =>
        /\ ret.isError
        /\ Includes(ret.text, "**Options:**")

\* C23: a research invocation with context 'rca' sends the model
\* sonar-reasoning-pro to the API without consulting the classifier, and the
\* entry it saves records that model.
C23_RcaModel ==
    (ret.op = "tool" /\ ret.name = "research" /\ ret.context = "rca") =>
        /\ ret.sent = "sonar-reasoning-pro"
        /\ ~ret.classified
        /\ ret.failed = "none" =>
               Includes(lastSave.entry, "**Model**: sonar-reasoning-pro")

\* C24: a research whose external call fails, and a deep_research whose
\* synthesis fails, answers with an error block and leaves every thread
\* file, every raw backup and the directory as they were.
C24_FailureLeavesStore ==
    [][(ret'.op = "tool" /\ ret'.failed \in {"search", "synthesize"}) =>
          /\ ret'.isError
          /\ files' = files
          /\ raw' = raw
          /\ dir' = dir
          /\ journal' = journal]_vars

\* C24 happens: an external call failed after an earlier invocation had
\* saved a thread file and its backup
C24_FailedAfterSave ==
    /\ ret.op = "tool"
    /\ ret.failed \in {"search", "synthesize"}
    /\ DOMAIN files # {}
    /\ DOMAIN raw # {}

=============================================================================
